---- MODULE Spec2Model ----
(***************************************************************************)
(* A model of the AT protocol engine of pynl-cell: the status-line parser  *)
(* (nl_cell/at/result.py), the reply parser (nl_cell/at/response.py) and   *)
(* the serial interface (nl_cell/at/interface.py).                         *)
(*                                                                         *)
(* Text is a sequence of one-character strings, so that slicing, find,     *)
(* strip and split are computed the way the Python code computes them.     *)
(* An optional value is a sequence of length 0 (None) or 1.                *)
(***************************************************************************)
EXTENDS Integers, Sequences, FiniteSets, TLC

\* ------------------------------------------------------------------ text

None == <<>>

Some(x) == <<x>>

\* str.isspace() over the characters the model uses.
Whitespace == {" ", "\t", "\n", "\r", "\f"}

Digits == {"0", "1", "2", "3", "4", "5", "6", "7", "8", "9"}

DigitValue(c) ==
  CASE c = "0" -> 0 [] c = "1" -> 1 [] c = "2" -> 2 [] c = "3" -> 3 [] c = "4" -> 4
    [] c = "5" -> 5 [] c = "6" -> 6 [] c = "7" -> 7 [] c = "8" -> 8 [] c = "9" -> 9

Min(a, b) == IF a < b THEN a ELSE b

Max(a, b) == IF a > b THEN a ELSE b

\* s[:n] for 0 <= n.
Take(s, n) == SubSeq(s, 1, Min(n, Len(s)))

\* s[n:] for 0 <= n.
Drop(s, n) == SubSeq(s, Min(n, Len(s)) + 1, Len(s))

\* s.startswith(p)
StartsWith(s, p) == Len(p) <= Len(s) /\ SubSeq(s, 1, Len(p)) = p

\* s.endswith(p)
EndsWith(s, p) == Len(p) <= Len(s) /\ SubSeq(s, Len(s) - Len(p) + 1, Len(s)) = p

\* The 0-based offsets at which p occurs in s.
Occurrences(s, p) ==
  {i \in 0..(Len(s) - Len(p)) : SubSeq(s, i + 1, i + Len(p)) = p}

\* s.find(p): the first offset of p in s, -1 when there is none.
Find(s, p) ==
  IF Occurrences(s, p) = {} THEN -1
  ELSE CHOOSE i \in Occurrences(s, p) : \A j \in Occurrences(s, p) : i <= j

\* s.rfind(p): the last offset of p in s, -1 when there is none.
RFind(s, p) ==
  IF Occurrences(s, p) = {} THEN -1
  ELSE CHOOSE i \in Occurrences(s, p) : \A j \in Occurrences(s, p) : i >= j

\* p in s
Contains(s, p) == Occurrences(s, p) # {}

\* s.lstrip()
RECURSIVE Lstrip(_)
Lstrip(s) ==
  IF s # <<>> /\ Head(s) \in Whitespace THEN Lstrip(Tail(s)) ELSE s

\* s.rstrip()
RECURSIVE Rstrip(_)
Rstrip(s) ==
  IF s # <<>> /\ s[Len(s)] \in Whitespace THEN Rstrip(SubSeq(s, 1, Len(s) - 1)) ELSE s

\* c.upper() for the letters of "at".
UpperChar(c) == IF c = "a" THEN "A" ELSE IF c = "t" THEN "T" ELSE c

\* s.upper()
Upper(s) == [i \in 1..Len(s) |-> UpperChar(s[i])]

\* s.split(sep) for a one-character separator: the list of fields.
RECURSIVE Split(_, _)
Split(s, sep) ==
  LET i == Find(s, <<sep>>)
  IN  IF i = -1 THEN <<s>>
      ELSE <<Take(s, i)>> \o Split(Drop(s, i + 1), sep)

\* Whether int(s) succeeds: surrounding whitespace, an optional sign, then
\* digits, with single underscores allowed between digits.
IsIntLiteral(s) ==
  LET t == Rstrip(Lstrip(s))
      u == IF t # <<>> /\ Head(t) \in {"+", "-"} THEN Tail(t) ELSE t
  IN  /\ u # <<>>
      /\ \A i \in 1..Len(u) : u[i] \in Digits \cup {"_"}
      /\ u[1] \in Digits
      /\ u[Len(u)] \in Digits
      /\ \A i \in 1..(Len(u) - 1) : ~(u[i] = "_" /\ u[i + 1] = "_")

RECURSIVE DigitsValue(_, _)
DigitsValue(u, acc) ==
  IF u = <<>> THEN acc
  ELSE IF Head(u) = "_" THEN DigitsValue(Tail(u), acc)
  ELSE DigitsValue(Tail(u), 10 * acc + DigitValue(Head(u)))

\* int(s), for s with IsIntLiteral(s).
IntValue(s) ==
  LET t == Rstrip(Lstrip(s))
      neg == t # <<>> /\ Head(t) = "-"
      u == IF t # <<>> /\ Head(t) \in {"+", "-"} THEN Tail(t) ELSE t
  IN  IF neg THEN 0 - DigitsValue(u, 0) ELSE DigitsValue(u, 0)

\* ------------------------------------------------------- the error tables

CmeErrorTable ==
  << <<<<"P","H","O","N","E","_","F","A","I","L","U","R","E">>, 0>>,
     <<<<"N","O","_","C","O","N","N","E","C","T","I","O","N","_","T","O","_","P","H","O","N","E">>, 1>>,
     <<<<"P","H","O","N","E","_","A","D","A","P","T","E","R","_","L","I","N","K","_","R","E","S","E","R","V","E","D">>, 2>>,
     <<<<"O","P","E","R","A","T","I","O","N","_","N","O","T","_","A","L","L","O","W","E","D">>, 3>>,
     <<<<"O","P","E","R","A","T","I","O","N","_","N","O","T","_","S","U","P","P","O","R","T","E","D">>, 4>>,
     <<<<"P","H","_","S","I","M","_","P","I","N","_","R","E","Q","U","I","R","E","D">>, 5>>,
     <<<<"P","H","_","F","S","I","M","_","P","I","N","_","R","E","Q","U","I","R","E","D">>, 6>>,
     <<<<"P","H","_","F","S","I","M","_","P","U","K","_","R","E","Q","U","I","R","E","D">>, 7>>,
     <<<<"S","I","M","_","N","O","T","_","I","N","S","E","R","T","E","D">>, 10>>,
     <<<<"S","I","M","_","P","I","N","_","R","E","Q","U","I","R","E","D">>, 11>>,
     <<<<"S","I","M","_","P","U","K","_","R","E","Q","U","I","R","E","D">>, 12>>,
     <<<<"S","I","M","_","F","A","I","L","U","R","E">>, 13>>,
     <<<<"S","I","M","_","B","U","S","Y">>, 14>>,
     <<<<"S","I","M","_","W","R","O","N","G">>, 15>>,
     <<<<"I","N","C","O","R","R","E","C","T","_","P","A","S","S","W","O","R","D">>, 16>>,
     <<<<"S","I","M","_","P","I","N","2","_","R","E","Q","U","I","R","E","D">>, 17>>,
     <<<<"S","I","M","_","P","U","K","2","_","R","E","Q","U","I","R","E","D">>, 18>>,
     <<<<"M","E","M","O","R","Y","_","F","U","L","L">>, 20>>,
     <<<<"I","N","V","A","L","I","D","_","I","N","D","E","X">>, 21>>,
     <<<<"N","O","T","_","F","O","U","N","D">>, 22>>,
     <<<<"M","E","M","O","R","Y","_","F","A","I","L","U","R","E">>, 23>>,
     <<<<"T","E","X","T","_","S","T","R","I","N","G","_","T","O","O","_","L","O","N","G">>, 24>>,
     <<<<"I","N","V","A","L","I","D","_","C","H","A","R","A","C","T","E","R","S","_","I","N","_","T","E","X","T","_","S","T","R","I","N","G">>, 25>>,
     <<<<"D","I","A","L","_","S","T","R","I","N","G","_","T","O","O","_","L","O","N","G">>, 26>>,
     <<<<"I","N","V","A","L","I","D","_","C","H","A","R","A","C","T","E","R","S","_","I","N","_","D","I","A","L","_","S","T","R","I","N","G">>, 27>>,
     <<<<"N","O","_","N","E","T","W","O","R","K","_","S","E","R","V","I","C","E">>, 30>>,
     <<<<"N","E","T","W","O","R","K","_","T","I","M","E","O","U","T">>, 31>>,
     <<<<"N","E","T","W","O","R","K","_","N","O","T","_","A","L","L","O","W","E","D","_","E","M","E","R","G","E","N","C","Y","_","C","A","L","L","S","_","O","N","L","Y">>, 32>>,
     <<<<"N","E","T","W","O","R","K","_","P","E","R","S","O","N","A","L","I","Z","A","T","I","O","N","_","P","I","N","_","R","E","Q","U","I","R","E","D">>, 40>>,
     <<<<"N","E","T","W","O","R","K","_","P","E","R","S","O","N","A","L","I","Z","A","T","I","O","N","_","P","U","K","_","R","E","Q","U","I","R","E","D">>, 41>>,
     <<<<"N","E","T","W","O","R","K","_","S","U","B","S","E","T","_","P","E","R","S","O","N","A","L","I","Z","A","T","I","O","N","_","P","I","N","_","R","E","Q","U","I","R","E","D">>, 42>>,
     <<<<"N","E","T","W","O","R","K","_","S","U","B","S","E","T","_","P","E","R","S","O","N","A","L","I","Z","A","T","I","O","N","_","P","U","K","_","R","E","Q","U","I","R","E","D">>, 43>>,
     <<<<"S","E","R","V","I","C","E","_","P","R","O","V","I","D","E","R","_","P","E","R","S","O","N","A","L","I","Z","A","T","I","O","N","_","P","I","N","_","R","E","Q","U","I","R","E","D">>, 44>>,
     <<<<"S","E","R","V","I","C","E","_","P","R","O","V","I","D","E","R","_","P","E","R","S","O","N","A","L","I","Z","A","T","I","O","N","_","P","U","K","_","R","E","Q","U","I","R","E","D">>, 45>>,
     <<<<"C","O","R","P","O","R","A","T","E","_","P","E","R","S","O","N","A","L","I","Z","A","T","I","O","N","_","P","I","N","_","R","E","Q","U","I","R","E","D">>, 46>>,
     <<<<"C","O","R","P","O","R","A","T","E","_","P","E","R","S","O","N","A","L","I","Z","A","T","I","O","N","_","P","U","K","_","R","E","Q","U","I","R","E","D">>, 47>>,
     <<<<"P","H","_","S","I","M","_","P","U","K","_","R","E","Q","U","I","R","E","D">>, 48>>,
     <<<<"I","N","C","O","R","R","E","C","T","_","P","A","R","A","M","E","T","E","R","S">>, 50>>,
     <<<<"U","N","K","N","O","W","N","_","E","R","R","O","R">>, 100>>,
     <<<<"I","L","L","E","G","A","L","_","M","S">>, 103>>,
     <<<<"I","L","L","E","G","A","L","_","M","E">>, 106>>,
     <<<<"G","P","R","S","_","S","E","R","V","I","C","E","S","_","N","O","T","_","A","L","L","O","W","E","D">>, 107>>,
     <<<<"P","L","M","N","_","N","O","T","_","A","L","L","O","W","E","D">>, 111>>,
     <<<<"L","O","C","A","T","I","O","N","_","A","R","E","A","_","N","O","T","_","A","L","L","O","W","E","D">>, 112>>,
     <<<<"R","O","A","M","I","N","G","_","N","O","T","_","A","L","L","O","W","E","D","_","I","N","_","T","H","I","S","_","L","O","C","A","T","I","O","N","_","A","R","E","A">>, 113>>,
     <<<<"O","P","E","R","A","T","I","O","N","_","T","E","M","P","O","R","A","R","Y","_","N","O","T","_","A","L","L","O","W","E","D">>, 126>>,
     <<<<"S","E","R","V","I","C","E","_","O","P","E","R","A","T","I","O","N","_","N","O","T","_","S","U","P","P","O","R","T","E","D">>, 132>>,
     <<<<"R","E","Q","U","E","S","T","E","D","_","S","E","R","V","I","C","E","_","O","P","T","I","O","N","_","N","O","T","_","S","U","B","S","C","R","I","B","E","D">>, 133>>,
     <<<<"S","E","R","V","I","C","E","_","O","P","T","I","O","N","_","T","E","M","P","O","R","A","R","Y","_","O","U","T","_","O","F","_","O","R","D","E","R">>, 134>>,
     <<<<"U","N","S","P","E","C","I","F","I","E","D","_","G","P","R","S","_","E","R","R","O","R">>, 148>>,
     <<<<"P","D","P","_","A","U","T","H","E","N","T","I","C","A","T","I","O","N","_","F","A","I","L","U","R","E">>, 149>>,
     <<<<"I","N","V","A","L","I","D","_","M","O","B","I","L","E","_","C","L","A","S","S">>, 150>>,
     <<<<"O","P","E","R","A","T","I","O","N","_","T","E","M","P","O","R","A","R","I","L","Y","_","N","O","T","_","A","L","L","O","W","E","D">>, 256>>,
     <<<<"C","A","L","L","_","B","A","R","R","E","D">>, 257>>,
     <<<<"P","H","O","N","E","_","I","S","_","B","U","S","Y">>, 258>>,
     <<<<"U","S","E","R","_","A","B","O","R","T">>, 259>>,
     <<<<"I","N","V","A","L","I","D","_","D","I","A","L","_","S","T","R","I","N","G">>, 260>>,
     <<<<"S","S","_","N","O","T","_","E","X","E","C","U","T","E","D">>, 261>>,
     <<<<"S","I","M","_","B","L","O","C","K","E","D">>, 262>>,
     <<<<"I","N","V","A","L","I","D","_","B","L","O","C","K">>, 263>>,
     <<<<"S","I","M","_","P","O","W","E","R","E","D","_","D","O","W","N">>, 772>> >>

CmsErrorTable ==
  << <<<<"U","N","A","S","S","I","G","N","E","D","_","N","U","M","B","E","R">>, 1>>,
     <<<<"O","P","E","R","A","T","O","R","_","D","E","T","E","R","M","I","N","E","D","_","B","A","R","R","I","N","G">>, 8>>,
     <<<<"C","A","L","L","_","B","A","R","E","D">>, 10>>,
     <<<<"S","H","O","R","T","_","M","E","S","S","A","G","E","_","T","R","A","N","S","F","E","R","_","R","E","J","E","C","T","E","D">>, 21>>,
     <<<<"D","E","S","T","I","N","A","T","I","O","N","_","O","U","T","_","O","F","_","S","E","R","V","I","C","E">>, 27>>,
     <<<<"U","N","I","N","D","E","N","T","I","F","I","E","D","_","S","U","B","S","C","R","I","B","E","R">>, 28>>,
     <<<<"F","A","C","I","L","I","T","Y","_","R","E","J","E","C","T","E","D">>, 29>>,
     <<<<"U","N","K","N","O","W","N","_","S","U","B","S","C","R","I","B","E","R">>, 30>>,
     <<<<"N","E","T","W","O","R","K","_","O","U","T","_","O","F","_","O","R","D","E","R">>, 38>>,
     <<<<"T","E","M","P","O","R","A","R","Y","_","F","A","I","L","U","R","E">>, 41>>,
     <<<<"C","O","N","G","E","S","T","I","O","N">>, 42>>,
     <<<<"R","E","C","O","U","R","C","E","S","_","U","N","A","V","A","I","L","A","B","L","E">>, 47>>,
     <<<<"R","E","Q","U","E","S","T","E","D","_","F","A","C","I","L","I","T","Y","_","N","O","T","_","S","U","B","S","C","R","I","B","E","D">>, 50>>,
     <<<<"R","E","Q","U","E","S","T","E","D","_","F","A","C","I","L","I","T","Y","_","N","O","T","_","I","M","P","L","E","M","E","N","T","E","D">>, 69>>,
     <<<<"I","N","V","A","L","I","D","_","S","H","O","R","T","_","M","E","S","S","A","G","E","_","T","R","A","N","S","F","E","R","_","R","E","F","E","R","E","N","C","E","_","V","A","L","U","E">>, 81>>,
     <<<<"I","N","V","A","L","I","D","_","M","E","S","S","A","G","E","_","U","N","S","P","E","C","I","F","I","E","D">>, 95>>,
     <<<<"I","N","V","A","L","I","D","_","M","A","N","D","A","T","O","R","Y","_","I","N","F","O","R","M","A","T","I","O","N">>, 96>>,
     <<<<"M","E","S","S","A","G","E","_","T","Y","P","E","_","N","O","N","_","E","X","I","S","T","E","N","T","_","O","R","_","N","O","T","_","I","M","P","L","E","M","E","N","T","E","D">>, 97>>,
     <<<<"M","E","S","S","A","G","E","_","N","O","T","_","C","O","M","P","A","T","I","B","L","E","_","W","I","T","H","_","S","H","O","R","T","_","M","E","S","S","A","G","E","_","P","R","O","T","O","C","O","L">>, 98>>,
     <<<<"I","N","F","O","R","M","A","T","I","O","N","_","E","L","E","M","E","N","T","_","N","O","N","_","E","X","I","S","T","E","N","T","_","O","R","_","N","O","T","_","I","M","P","L","E","M","E","N","T","E">>, 99>>,
     <<<<"P","R","O","T","O","C","O","L","_","E","R","R","O","R","_","U","N","S","P","E","C","I","F","I","E","D">>, 111>>,
     <<<<"I","N","T","E","R","N","E","T","W","O","R","K","I","N","G","_","U","N","S","P","E","C","I","F","I","E","D">>, 127>>,
     <<<<"T","E","L","E","M","A","T","I","C","_","I","N","T","E","R","N","E","T","W","O","R","K","I","N","G","_","N","O","T","_","S","U","P","P","O","R","T","E","D">>, 128>>,
     <<<<"S","H","O","R","T","_","M","E","S","S","A","G","E","_","T","Y","P","E","_","0","_","N","O","T","_","S","U","P","P","O","R","T","E","D">>, 129>>,
     <<<<"C","A","N","N","O","T","_","R","E","P","L","A","C","E","_","S","H","O","R","T","_","M","E","S","S","A","G","E">>, 130>>,
     <<<<"U","N","S","P","E","C","I","F","I","E","D","_","T","P","_","P","I","D","_","E","R","R","O","R">>, 143>>,
     <<<<"D","A","T","A","_","C","O","D","E","_","S","C","H","E","M","E","_","N","O","T","_","S","U","P","P","O","R","T","E","D">>, 144>>,
     <<<<"M","E","S","S","A","G","E","_","C","L","A","S","S","_","N","O","T","_","S","U","P","P","O","R","T","E","D">>, 145>>,
     <<<<"U","N","S","P","E","C","I","F","I","E","D","_","T","P","_","D","C","S","_","E","R","R","O","R">>, 159>>,
     <<<<"C","O","M","M","A","N","D","_","C","A","N","N","O","T","_","B","E","_","A","C","T","I","O","N","E","D">>, 160>>,
     <<<<"C","O","M","M","A","N","D","_","U","N","S","U","P","P","O","R","T","E","D">>, 161>>,
     <<<<"U","N","S","P","E","C","I","F","I","E","D","_","T","P","_","C","O","M","M","A","N","D","_","E","R","R","O","R">>, 175>>,
     <<<<"T","P","D","U","_","N","O","T","_","S","U","P","P","O","R","T","E","D">>, 176>>,
     <<<<"S","C","_","B","U","S","Y">>, 192>>,
     <<<<"N","O","_","S","C","_","S","U","B","S","C","R","I","P","T","I","O","N">>, 193>>,
     <<<<"S","C","_","S","Y","S","T","E","M","_","F","A","I","L","U","R","E">>, 194>>,
     <<<<"I","N","V","A","L","I","D","_","S","M","E","_","A","D","D","R","E","S","S">>, 195>>,
     <<<<"D","E","S","T","I","N","A","T","I","O","N","_","S","M","E","_","B","A","R","R","E","D">>, 196>>,
     <<<<"S","M","_","R","E","J","E","C","T","E","D","_","D","U","P","L","I","C","A","T","E","_","S","M">>, 197>>,
     <<<<"T","P","_","V","P","F","_","N","O","T","_","S","U","P","P","O","R","T","E","D">>, 198>>,
     <<<<"T","P","_","V","P","_","N","O","T","_","S","U","P","P","O","R","T","E","D">>, 199>>,
     <<<<"D","0","_","S","I","M","_","S","M","S","_","S","T","O","R","A","G","E","_","F","U","L","L">>, 208>>,
     <<<<"N","O","_","S","M","S","_","S","T","O","R","A","G","E","_","C","A","P","A","B","I","L","I","T","Y","_","I","N","_","S","I","M">>, 209>>,
     <<<<"E","R","R","O","R","_","I","N","_","M","S">>, 210>>,
     <<<<"M","E","M","O","R","Y","_","C","A","P","A","C","I","T","Y","_","E","X","C","E","E","D","E","D">>, 211>>,
     <<<<"S","I","M","_","A","P","P","L","I","C","A","T","I","O","N","_","T","O","O","L","K","I","T","_","B","U","S","Y">>, 212>>,
     <<<<"S","I","M","_","D","A","T","A","_","D","O","W","N","L","O","A","D","_","E","R","R","O","R">>, 213>>,
     <<<<"U","N","S","P","E","C","I","F","I","E","D","_","E","R","R","O","R","_","C","A","U","S","E">>, 255>>,
     <<<<"M","E","_","F","A","I","L","U","R","E">>, 300>>,
     <<<<"S","M","S","_","S","E","R","V","I","C","E","_","O","F","_","M","E","_","R","E","S","E","R","V","E","D">>, 301>>,
     <<<<"O","P","E","R","A","T","I","O","N","_","N","O","T","_","A","L","L","O","W","E","D">>, 302>>,
     <<<<"O","P","E","R","A","T","I","O","N","_","N","O","T","_","S","U","P","P","O","R","T","E","D">>, 303>>,
     <<<<"I","N","V","A","L","I","D","_","P","D","U","_","M","O","D","E","_","P","A","R","A","M","E","T","E","R">>, 304>>,
     <<<<"I","N","V","A","L","I","D","_","T","E","X","T","_","M","O","D","E","_","P","A","R","A","M","E","T","E","R">>, 305>>,
     <<<<"S","I","M","_","N","O","T","_","I","N","S","E","R","T","E","D">>, 310>>,
     <<<<"S","I","M","_","P","I","N","_","R","E","Q","U","I","R","E","D">>, 311>>,
     <<<<"P","H","_","S","I","M","_","P","I","N","_","R","E","Q","U","I","R","E","D">>, 312>>,
     <<<<"S","I","M","_","F","A","I","L","U","R","E">>, 313>>,
     <<<<"S","I","M","_","B","U","S","Y">>, 314>>,
     <<<<"S","I","M","_","W","R","O","N","G">>, 315>>,
     <<<<"S","I","M","_","P","U","K","_","R","E","Q","U","I","R","E","D">>, 316>>,
     <<<<"S","I","M","_","P","I","N","2","_","R","E","Q","U","I","R","E","D">>, 317>>,
     <<<<"S","I","M","_","P","U","K","2","_","R","E","Q","U","I","R","E","D">>, 318>>,
     <<<<"M","E","M","O","R","Y","_","F","A","I","L","U","R","E">>, 320>>,
     <<<<"I","N","V","A","L","I","D","_","M","E","M","O","R","Y","_","I","N","D","E","X">>, 321>>,
     <<<<"M","E","M","O","R","Y","_","F","U","L","L">>, 322>>,
     <<<<"S","M","S","C","_","A","D","D","R","E","S","S","_","U","N","K","N","O","W","N">>, 330>>,
     <<<<"N","O","_","N","E","T","W","O","R","K","_","S","E","R","V","I","C","E">>, 331>>,
     <<<<"N","E","T","W","O","R","K","_","T","I","M","E","O","U","T">>, 332>>,
     <<<<"N","O","_","C","N","M","A","_","E","X","P","E","C","T","E","D">>, 340>>,
     <<<<"U","N","K","N","O","W","N","_","E","R","R","O","R">>, 500>>,
     <<<<"U","S","E","R","_","A","B","O","R","T">>, 512>>,
     <<<<"U","N","A","B","L","E","_","T","O","_","S","T","O","R","E">>, 513>>,
     <<<<"I","N","V","A","L","I","D","_","S","T","A","T","U","S">>, 514>>,
     <<<<"D","E","V","I","C","E","_","B","U","S","Y","_","O","R","_","I","N","V","A","L","I","D","_","C","H","A","R","A","C","T","E","R","_","I","N","_","S","T","R","I","N","G">>, 515>>,
     <<<<"I","N","V","A","L","I","D","_","L","E","N","G","T","H">>, 516>>,
     <<<<"I","N","V","A","L","I","D","_","C","H","A","R","A","C","T","E","R","_","I","N","_","P","D","U">>, 517>>,
     <<<<"I","N","V","A","L","I","D","_","P","A","R","A","M","E","T","E","R">>, 518>>,
     <<<<"I","N","V","A","L","I","D","_","L","E","N","G","T","H","_","O","R","_","C","H","A","R","A","C","T","E","R">>, 519>>,
     <<<<"I","N","V","A","L","I","D","_","C","H","A","R","A","C","T","E","R","_","I","N","_","T","E","X","T">>, 520>>,
     <<<<"T","I","M","E","R","_","E","X","P","I","R","E","D">>, 521>>,
     <<<<"O","P","E","R","A","T","I","O","N","_","T","E","M","P","O","R","A","R","Y","_","N","O","T","_","A","L","L","O","W","E","D">>, 522>>,
     <<<<"S","I","M","_","N","O","T","_","R","E","A","D","Y">>, 532>>,
     <<<<"C","E","L","L","_","B","R","O","A","D","C","A","S","T","_","E","R","R","O","R","_","U","N","K","N","O","W","N">>, 534>>,
     <<<<"P","R","O","T","O","C","O","L","_","S","T","A","C","K","_","B","U","S","Y">>, 535>>,
     <<<<"I","N","V","A","L","I","D","_","P","A","R","A","M","E","T","E","R","2">>, 538>> >>

\* The entries of a class __dict__ that are not error codes; getCode and getName
\* walk them too. Their values are objects, never integers and never None.
ClassDictExtras ==
  << <<"_","_","m","o","d","u","l","e","_","_">>,
     <<"_","_","d","o","c","_","_">>,
     <<"g","e","t","N","a","m","e">>,
     <<"g","e","t","C","o","d","e">>,
     <<"_","_","d","i","c","t","_","_">>,
     <<"_","_","w","e","a","k","r","e","f","_","_">> >>

\* The value getCode returns for one of the extras: the attribute itself.
Attribute(name) == <<"attribute", name>>

TableNames(table) == {table[i][1] : i \in 1..Len(table)}

TableCodes(table) == {table[i][2] : i \in 1..Len(table)}

\* getCode(name): the value of the first mapping with that name, None without one.
TableGetCode(table, name) ==
  IF \E i \in 1..Len(table) : table[i][1] = name
  THEN LET i == CHOOSE k \in 1..Len(table) :
                  table[k][1] = name /\ \A j \in 1..(k - 1) : table[j][1] # name
       IN  Some(table[i][2])
  ELSE IF \E i \in 1..Len(ClassDictExtras) : ClassDictExtras[i] = name
  THEN Attribute(name)
  ELSE None

\* getName(code): the name of the first mapping with that code, None without one.
TableGetName(table, code) ==
  IF \E i \in 1..Len(table) : table[i][2] = code
  THEN LET i == CHOOSE k \in 1..Len(table) :
                  table[k][2] = code /\ \A j \in 1..(k - 1) : table[j][2] # code
       IN  Some(table[i][1])
  ELSE None

CmeGetCode(name) == TableGetCode(CmeErrorTable, name)

CmsGetCode(name) == TableGetCode(CmsErrorTable, name)

CmeGetName(code) == TableGetName(CmeErrorTable, code)

\* A reading of CmsError.getName that looks the code up in the CME table.
CmsGetNameFromCme(code) == TableGetName(CmeErrorTable, code)

CmsGetName(code) == TableGetName(CmsErrorTable, code)

\* ------------------------------------------------------------- Result

\* The error variants.
General == 0

Cme == 1

Cms == 2

\* Result.Error(variant, code); code is None or Some(integer) (or an attribute).
Error(variant, code) == [variant |-> variant, code |-> code]

\* Result(error); error is None for OK.
Result(error) == [error |-> error]

ResultOk == Result(None)

\* Result.Error.__eq__
ErrorEq(a, b) ==
  IF (a.variant # b.variant) \/ (a.code # b.code) THEN FALSE ELSE TRUE

\* Result.__eq__, by way of Error.__ne__; an error never equals None.
ResultEq(a, b) ==
  IF a.error = None \/ b.error = None
  THEN a.error = None /\ b.error = None
  ELSE ErrorEq(a.error[1], b.error[1])

\* Result.__bool__
ResultBool(r) == IF r.error = None THEN TRUE ELSE FALSE

T_ERROR == <<"E", "R", "R", "O", "R">>

T_CME == <<"C", "M", "E">>

T_CMS == <<"C", "M", "S">>

T_OK == <<"O", "K">>

\* A reading of the name lookup that asks the CME table whatever the family.
ErrorCodeOfCmeOnly(variant, name) ==
  IF IsIntLiteral(name) THEN Some(IntValue(name)) ELSE CmeGetCode(name)

\* Result.Error.makeFromString: the code a name or number field stands for,
\* given the family.
ErrorCodeOf(variant, name) ==
  IF IsIntLiteral(name) THEN Some(IntValue(name))
  ELSE IF variant = Cme THEN CmeGetCode(name)
  ELSE CmsGetCode(name)

\* Result.Error.makeFromString: None, or Some(error).
ErrorMakeFromString(string0) ==
  LET string == IF StartsWith(string0, <<"+">>) THEN Drop(string0, 1) ELSE string0
  IN  IF string = T_ERROR THEN Some(Error(General, None))
      ELSE IF ~StartsWith(string, T_CME) /\ ~StartsWith(string, T_CMS) THEN None
      ELSE LET variant == IF StartsWith(string, T_CME) THEN Cme ELSE Cms
               fields == Split(string, ":")
           IN  IF Len(fields) < 2 THEN None
               ELSE LET code == ErrorCodeOf(variant, Lstrip(fields[2]))
                    IN  IF code = None THEN None
                        ELSE Some(Error(variant, code))

\* Result.makeFromString: None, or Some(result).
ResultMakeFromString(string) ==
  IF string = T_OK THEN Some(ResultOk)
  ELSE LET error == ErrorMakeFromString(string)
       IN  IF error = None THEN None ELSE Some(Result(error))

\* ------------------------------------------------------------ Response

\* Response.DefaultNewLine
NewLine == <<"\r", "\n">>

\* Response(result, command, output): a missing command or output is "".
Response(result, command, output) ==
  [result |-> result,
   command |-> IF command = None THEN <<>> ELSE command[1],
   output |-> output]

\* Response.__bool__
ResponseBool(response) == IF ResultBool(response.result) THEN TRUE ELSE FALSE

\* Response._filterCommand
FilterCommand(command, output) ==
  LET commandStart == Find(output, command)
  IN  IF commandStart = -1 THEN output
      ELSE Lstrip(Drop(output, Len(command)))

\* A reading of makeFromString's result line that skips one character of
\* the line terminator only.
ResultPartShort(string, resultStart) == Drop(string, resultStart + 1)

\* Response.makeFromString: the final result line, string[resultStart + 2:].
ResultPart(string, resultStart) == Drop(string, resultStart + 2)

\* Response.makeFromString: the generic output, string[:resultStart].
OutputPart(string, resultStart) == Take(string, resultStart)

\* Response.makeFromString(string, command): command is None or Some(text).
\* None, or Some(response).
ResponseMakeFromString(string0, command) ==
  LET string == IF EndsWith(string0, NewLine)
                THEN Take(string0, Len(string0) - 2) ELSE string0
      resultStart == RFind(string, NewLine)
  IN  IF resultStart = -1 THEN None
      ELSE LET output0 == OutputPart(string, resultStart)
               output == IF command # None
                         THEN FilterCommand(command[1], output0) ELSE output0
               result == ResultMakeFromString(ResultPart(string, resultStart))
           IN  IF result = None THEN None
               ELSE Some(Response(result[1], command, output))

\* ------------------------------------------------------------ variables

VARIABLES
  arg,        \* the argument of the parser call being made
  ret,        \* None before the call, Some(value returned) after it
  echo,       \* whether the transport echoes what is written to it
  rx,         \* the serial port's input: bytes the host has not read yet
  tx,         \* the bytes written to the serial port since the exchange began
  buffer,     \* Interface._buffer
  pc,         \* where the caller is: idle, or inside one of the read loops
  call,       \* the call in progress, or the last one: its name and arguments
  elapsed,    \* now - startTime of the _getLines generator in use
  data,       \* _waitForResponse's accumulated text
  outcome,    \* what the last call returned or raised
  gen,        \* the getUrcs generator the caller holds, if any
  prompt,     \* the open Interface.Prompt, if any
  taken,      \* how many lines _getLines has yielded so far
  delivered,  \* the ordinals of the lines getUrc has returned, in order
  pre,        \* lines buffered when the command began that are not read yet
  seen,       \* the lines yielded to the getUrc call in progress
  dropped,    \* the lines getUrc has read and not returned, in order
  sent,       \* how many chunks the device has sent
  ncalls,     \* how many calls the caller has made
  family,     \* which socket factory the modem has: A (SRC7611), B (TG1WWG), C (Nano)
  sessions,   \* the socket instances the factory has returned, in order
  availableConnIds,  \* family B: Socket.availableConnIds
  device,     \* the ids of the sockets the modem holds
  wire,       \* what the last socket call gave the transport to write
  lastCall,   \* the last socket call: what it was and how it ended
  dfu,        \* an App.upload or App.fota call: where it is and what it has read
  reader,     \* a _getLines generator a caller holds: its clock and its counts
  conc,       \* two threads on one Interface: where each is in its line reader,
              \* and the buffer objects and the port timeout they share
  sim         \* the Sim sub-module of a Skywire Nano: the current SIM and the
              \* ICCID each SIM has cached

parseVars == <<arg, ret>>

ifaceVars ==
  <<echo, rx, tx, buffer, pc, call, elapsed, data, outcome, gen, prompt,
    taken, delivered, pre, seen, dropped, sent, ncalls>>

sockVars == <<family, sessions, availableConnIds, device, wire, lastCall>>

callerVars == <<dfu, reader, conc, sim>>

vars == <<parseVars, ifaceVars, sockVars, callerVars>>

\* No socket call made yet.
NoLast == [op |-> "none", session |-> 0, kind |-> "none", value |-> None]

\* A modem whose socket factory is not in use.
NoSockets ==
  /\ family = "none" /\ sessions = <<>> /\ availableConnIds = <<>>
  /\ device = {} /\ wire = <<>> /\ lastCall = NoLast

\* No firmware update under way.
NoDfu ==
  [pc |-> "idle", op |-> "none", type |-> 0, reboot |-> FALSE, at |-> FALSE,
   trigger |-> "none", transfer |-> "none", waited |-> 0, inCall |-> 0,
   count |-> 0, heard |-> <<>>, outcome |-> [kind |-> "none", value |-> None]]

\* No line reader held.
NoReader ==
  [pc |-> "idle", timeout |-> 0, since |-> 0, total |-> 0, reads |-> 0,
   readAt |-> 0, yielded |-> 0, arrived |-> FALSE,
   made |-> 0, kept |-> <<>>, read |-> <<>>, lines |-> <<>>]

\* A thread that has not called the Interface yet.
NoThread ==
  [pc |-> "idle", phase |-> "none", command |-> None, pattern |-> None,
   timeout |-> 0, waitTimeout |-> 0, elapsed |-> 0, ref |-> 0, local |-> 0,
   data |-> <<>>, took |-> 0, status |-> FALSE,
   outcome |-> [kind |-> "none", value |-> None]]

\* No threads: the Interface's buffer is its first, empty, bytearray.
NoThreads ==
  [cmd |-> NoThread, urc |-> NoThread, heap |-> << <<>>, <<>>, <<>> >>, cur |-> 1,
   readTimeout |-> 0, answered |-> FALSE, notified |-> 0]

\* nano.Sim.__init__: the first SIM is the current one, no ICCID is cached,
\* and nothing has been asked of the sub-module.
NoSim ==
  [current |-> 1, iccid |-> <<None, None>>, op |-> "none",
   key |-> [type |-> "none", value |-> 0, name |-> ""], asked |-> 0,
   reply |-> None, end |-> [kind |-> "none", value |-> None], wire |-> <<>>]

\* Nothing but the one caller of the other specifications.
NoCallers == dfu = NoDfu /\ reader = NoReader /\ conc = NoThreads /\ sim = NoSim

\* ----------------------------------------------- the parsers, as calls

\* Lines joined by the line terminator.
RECURSIVE JoinLines(_)
JoinLines(lines) ==
  IF lines = <<>> THEN <<>>
  ELSE IF Len(lines) = 1 THEN lines[1]
  ELSE lines[1] \o NewLine \o JoinLines(Tail(lines))

\* The decimal text of a natural number.
DigitChar(d) == <<"0", "1", "2", "3", "4", "5", "6", "7", "8", "9">>[d + 1]

RECURSIVE NatText(_)
NatText(n) == IF n < 10 THEN <<DigitChar(n)>> ELSE NatText(n \div 10) \o <<DigitChar(n % 10)>>

\* The longest generic output, in lines, of the replies parsed.
MaxOutputLines == 2

\* Lines a device puts before the status line: information lines, an echoed
\* command, an empty line, and lines that look like a status line.
OutputLines ==
  { <<>>, <<"+", "C", "S", "Q", ":", " ", "1">>, <<"A", "T", "+", "C", "S", "Q">>, <<"O", "K">>, <<"+", "C", "M", "E", "E", ":", " ", "1">>, <<"d", "a", "t", "a", " ">> }

\* Candidates for the last line of a reply.
LastLines ==
  { <<"O", "K">>, <<"E", "R", "R", "O", "R">>, <<"+", "E", "R", "R", "O", "R">>, <<"+", "O", "K">>, <<"O", "K", " ">>, <<"o", "k">>, <<>>,
    <<"C", "M", "E", " ", "E", "R", "R", "O", "R", ":", " ", "1", "1">>, <<"+", "C", "M", "E", " ", "E", "R", "R", "O", "R", ":", " ", "S", "I", "M", "_", "B", "U", "S", "Y">>, <<"+", "C", "M", "E", " ", "E", "R", "R", "O", "R", ":", "1", "0">>, <<"+", "C", "M", "S", " ", "E", "R", "R", "O", "R", ":", " ", "5", "0", "0">>,
    <<"C", "M", "S", " ", "E", "R", "R", "O", "R", ":", " ", "S", "I", "M", "_", "B", "U", "S", "Y">>, <<"+", "C", "M", "E", " ", "E", "R", "R", "O", "R", ":", " ", "N", "O", "_", "C", "N", "M", "A", "_", "E", "X", "P", "E", "C", "T", "E", "D">>, <<"+", "C", "M", "S", " ", "E", "R", "R", "O", "R", ":", " ", "N", "O", "P", "E">>,
    <<"C", "M", "E", " ", "E", "R", "R", "O", "R">>, <<"+", "C", "M", "E", " ", "E", "R", "R", "O", "R", ":", " ">>, <<"+", "C", "M", "E", "E", ":", " ", "1">>, <<"+", "C", "M", "S", "S", ":", " ", "1", "2">>, <<"+", "C", "M", "S", ":", " ", "x">>,
    <<"+", "C", "S", "Q", ":", " ", "1">>, <<"E", "R", "R", "O", "R", ":", " ", "1">>, <<"+", "C", "M", "E", " ", "E", "R", "R", "O", "R", ":", " ", "1", "x">> }

Outputs ==
  {JoinLines(ls) : ls \in UNION {[1..n -> OutputLines] : n \in 0..MaxOutputLines}}

\* The commands given to Response.makeFromString for echo filtering.
ParseCommands == {None, Some(<<"A", "T", "+", "C", "S", "Q">>), Some(<<"+", "C", "S", "Q">>)}

\* A reply: output, line terminator, last line, line terminator.
ReplyText(output, last) == output \o NewLine \o last \o NewLine

ReplyArgs ==
  {[kind |-> "reply", output |-> o, last |-> l, string |-> ReplyText(o, l), command |-> c] :
     o \in Outputs, l \in LastLines, c \in ParseCommands}

Families == {Cme, Cms}

FamilyTable(variant) == IF variant = Cme THEN CmeErrorTable ELSE CmsErrorTable

FamilyText(variant) == IF variant = Cme THEN T_CME ELSE T_CMS

\* The status line of a family error: [+]<FAMILY> ERROR: <field>.
StatusLine(plus, variant, field) ==
  (IF plus THEN <<"+">> ELSE <<>>) \o FamilyText(variant) \o <<" ", "E", "R", "R", "O", "R", ":", " ">> \o field

StatusArgsOf(v) ==
  {[kind |-> "status", variant |-> v, name |-> FamilyTable(v)[i][1],
    code |-> FamilyTable(v)[i][2]] : i \in 1..Len(FamilyTable(v))}

StatusArgs == UNION {StatusArgsOf(v) : v \in Families}

\* Response.makeFromString(arg.string, arg.command)
MakeResponse ==
  /\ arg.kind = "reply"
  /\ ret = None
  /\ ret' = Some(ResponseMakeFromString(arg.string, arg.command))
  /\ UNCHANGED <<arg, ifaceVars, sockVars, callerVars>>

\* Result.makeFromString on the four status lines of one table entry: the code
\* and the name, each without and with the leading +.
MakeResults ==
  /\ arg.kind = "status"
  /\ ret = None
  /\ ret' = Some([byCode |-> ResultMakeFromString(StatusLine(FALSE, arg.variant, NatText(arg.code))),
                  byCodePlus |-> ResultMakeFromString(StatusLine(TRUE, arg.variant, NatText(arg.code))),
                  byName |-> ResultMakeFromString(StatusLine(FALSE, arg.variant, arg.name)),
                  byNamePlus |-> ResultMakeFromString(StatusLine(TRUE, arg.variant, arg.name))])
  /\ UNCHANGED <<arg, ifaceVars, sockVars, callerVars>>



\* ------------------------------------------------------------ Interface

\* Interface.SendNewLine
SendNewLine == <<"\r">>

T_AT == <<"A", "T">>

\* The dynamic-mode terminator, the byte 0x1A.
SUB == "SUB"

\* How many commands or prompt exchanges the caller starts in a run.
MaxCalls == 1

\* How many times the caller waits for a notification in a run.
MaxUrcCalls == 2

\* How many chunks the device sends in a run.
MaxDeviceSends == 2

\* How many writeData calls a prompt exchange has.
MaxData == 1

\* The deadlines callers give, in clock ticks: none at all, and some.
Timeouts == {0, 1}

\* The texts callers pass as a command.
Commands == { <<"A", "T", "+", "C", "S", "Q">>, <<"+", "C", "S", "Q">> }

\* The payloads callers pass to writeData.
Payloads == { <<"h", "i">> }

\* The patterns callers pass to getUrc: none, or a regular expression that
\* stands for a literal text (such as r"\+RESET" for +RESET), given here as
\* that text.
Patterns == { None, Some(<<"+", "C", "R", "E", "G">>), Some(<<"C", "S", "Q">>) }

\* What the device sends as its k-th chunk: a notification or an information
\* line, which carry the number k, or the line that ends a reply.
DeviceChunks(k) ==
  { <<"+", "C", "R", "E", "G", ":", " ">> \o NatText(k) \o NewLine,
    NewLine \o <<"+", "C", "S", "Q", ":", " ">> \o NatText(k) \o NewLine,
    NewLine \o T_OK \o NewLine }

\* re.match(pattern, line) is not None: the pattern matches at the start of
\* the line.
ReMatch(pattern, line) == StartsWith(line, pattern)

\* buffer.rfind(b"\n") >= 0
HasLine(s) == Contains(s, <<"\n">>)

\* How many lines s holds.
CountLines(s) == Cardinality(Occurrences(s, <<"\n">>))

\* serial.readline() on input s: through the first line feed, or, when the
\* read times out before one arrives, all there is.
ReadLine(s) == IF HasLine(s) THEN Take(s, Find(s, <<"\n">>) + 1) ELSE s

\* How long a readline() may take with the port's timeout set to timeout: any
\* time when a line feed arrives, the timeout or more when none does.
ReadDurations(timeout, s) ==
  IF HasLine(s) THEN {0, 1} ELSE timeout..(timeout + 1)

\* A reading of _getLines that hands the line out and keeps it buffered too.
BufferAfterYieldKept(buf) == buf

\* _getLines: the buffer once a line has been split off to be yielded.
BufferAfterYield(buf) == <<>>

\* _getLines: time since the first pass, kept up to just past the deadline.
Later(e, d, timeout) == Min(e + d, timeout + 1)

\* A reading of the deadline test that stops when the deadline is reached.
GetLinesExpiredAtDeadline(e, timeout) == e >= timeout

\* _getLines: whether the deadline has passed.
GetLinesExpired(e, timeout) == e > timeout

\* _beginCommand: the command without its own AT.
DropAT(command) ==
  IF Upper(Take(command, 2)) = T_AT THEN Drop(command, 2) ELSE command

\* How many bytes a short write of d may get out: none, or all but the last.
ShortWrites(d) == {0, Len(d) - 1}

\* serial.write(d) with a write timeout of 0: all of d, or only a first part.
WriteResults(d) ==
  {[ok |-> TRUE, wrote |-> d]} \cup
  {[ok |-> FALSE, wrote |-> Take(d, n)] : n \in ShortWrites(d)}

\* What a write of w adds to the port's input when the transport echoes.
Echoed(w) == IF echo THEN w ELSE <<>>

NoOutcome == [kind |-> "none", value |-> None]

\* Interface.CommError, with the place that raised it.
CommError(why) == [kind |-> "CommError", value |-> why]

Call(op, command, pattern, timeout) ==
  [op |-> op, command |-> command, pattern |-> pattern, timeout |-> timeout]

NoCall == Call("none", None, None, 0)

\* The device sends a chunk.
DeviceSend ==
  /\ sent < MaxDeviceSends
  /\ \E chunk \in DeviceChunks(sent + 1) : rx' = rx \o chunk
  /\ sent' = sent + 1
  /\ UNCHANGED <<callerVars, sockVars, parseVars, echo, tx, buffer, pc, call, elapsed, data, outcome, gen,
                 prompt, taken, delivered, pre, seen, dropped, ncalls>>

\* sendCommand, to the first read of _beginCommand: strip the line endings
\* and write the synchronizing AT.
SendCommandWithin(limit) ==
  /\ pc = "idle" /\ prompt = None /\ ncalls < limit
  /\ \E c \in Commands, timeout \in Timeouts, w \in WriteResults(T_AT) :
       /\ call' = Call("sendCommand", Some(Rstrip(c)), None, timeout)
       /\ tx' = w.wrote
       /\ rx' = rx \o Echoed(w.wrote)
       /\ IF w.ok
          THEN pc' = "drain" /\ outcome' = NoOutcome
          ELSE pc' = "idle" /\ outcome' = CommError("write")
  /\ elapsed' = 0
  /\ data' = <<>>
  /\ pre' = CountLines(rx)
  /\ seen' = <<>>
  /\ dropped' = dropped
  /\ ncalls' = ncalls + 1
  /\ UNCHANGED <<callerVars, sockVars, parseVars, echo, buffer, gen, prompt, taken, delivered, sent>>

\* sendCommand, the caller making no more than MaxCalls calls.
SendCommand == SendCommandWithin(MaxCalls)

\* sendCommand as a later call of a caller that has waited for a
\* notification and had getUrc drop a line.
SendCommandLater == dropped # <<>> /\ gen = None /\ SendCommandWithin(MaxUrcCalls)

\* _beginCommand after its read loop: write the command body; sendCommand
\* goes on to _waitForResponse, Prompt.startCommand returns.
WriteBody ==
  \E w \in WriteResults(DropAT(call.command[1]) \o SendNewLine) :
    /\ tx' = tx \o w.wrote
    /\ rx' = rx \o Echoed(w.wrote)
    /\ IF ~w.ok
       THEN /\ pc' = "idle" /\ outcome' = CommError("write")
            /\ prompt' = None
       ELSE IF call.op = "sendCommand"
       THEN pc' = "wait" /\ outcome' = NoOutcome /\ prompt' = prompt
       ELSE pc' = "idle" /\ outcome' = [kind |-> "started", value |-> None] /\ prompt' = prompt
    /\ elapsed' = 0
    /\ UNCHANGED <<buffer, taken, pre>>

\* One pass of _getLines(timeout = 0) in _beginCommand: the lines it yields
\* are dropped.
DrainRead ==
  \E d \in ReadDurations(0, rx) :
    LET got == ReadLine(rx)
        buf == buffer \o got
    IN  /\ rx' = Drop(rx, Len(got))
        /\ elapsed' = Later(elapsed, d, 0)
        /\ IF HasLine(buf)
           THEN buffer' = BufferAfterYield(buf) /\ taken' = taken + 1 /\ pre' = Max(pre - 1, 0)
           ELSE buffer' = buf /\ UNCHANGED <<taken, pre>>
        /\ UNCHANGED <<tx, pc, outcome, prompt>>

DrainStep ==
  /\ pc = "drain"
  /\ IF GetLinesExpired(elapsed, 0) THEN WriteBody ELSE DrainRead
  /\ UNCHANGED <<callerVars, sockVars, parseVars, echo, call, data, gen, delivered, seen, dropped, sent, ncalls>>

\* _waitForResponse when its line reader has ended: the timeout.
WaitTimeout ==
  /\ outcome' = CommError("timeout")
  /\ pc' = "idle"
  /\ prompt' = None
  /\ UNCHANGED <<rx, buffer, elapsed, data, taken>>

\* One pass of _getLines in _waitForResponse: a line it yields is added to
\* the text and the text is tried as a response.
WaitRead ==
  \E d \in ReadDurations(call.timeout, rx) :
    LET got == ReadLine(rx)
        buf == buffer \o got
        text == data \o buf
        response == ResponseMakeFromString(text, call.command)
    IN  /\ rx' = Drop(rx, Len(got))
        /\ elapsed' = Later(elapsed, d, call.timeout)
        /\ IF ~HasLine(buf)
           THEN /\ buffer' = buf
                /\ UNCHANGED <<data, taken, outcome, pc, prompt>>
           ELSE /\ buffer' = BufferAfterYield(buf)
                /\ taken' = taken + 1
                /\ data' = text
                /\ IF response # None
                   THEN /\ outcome' = [kind |-> "response", value |-> response[1]]
                        /\ pc' = "idle"
                        /\ prompt' = None
                   ELSE UNCHANGED <<outcome, pc, prompt>>

WaitStep ==
  /\ pc = "wait"
  /\ IF GetLinesExpired(elapsed, call.timeout) THEN WaitTimeout ELSE WaitRead
  /\ UNCHANGED <<callerVars, sockVars, parseVars, echo, tx, call, gen, delivered, pre, seen, dropped, sent, ncalls>>

\* A reading of getUrcs that lets the CommError of getUrc through.
GetUrcsOnCommErrorRaised == CommError("urc")

\* What getUrcs does with the CommError of getUrc: it ends the sequence.
GetUrcsOnCommError == [kind |-> "stop", value |-> None]

\* getUrc when its line reader has ended: CommError, which getUrcs catches.
UrcTimeout ==
  /\ pc' = "idle"
  /\ IF call.op = "next"
     THEN outcome' = GetUrcsOnCommError /\ gen' = Some([gen[1] EXCEPT !.done = TRUE])
     ELSE outcome' = CommError("urc") /\ gen' = gen
  /\ UNCHANGED <<rx, buffer, elapsed, taken, delivered, seen, dropped>>

\* A reading of getUrc that takes a line when the pattern matches anywhere in
\* it (re.search).
UrcWantedAnywhere(pattern, line) == ~((pattern # None) /\ ~Contains(line, pattern[1]))

\* getUrc: whether a line is the one wanted.
UrcWanted(pattern, line) == ~((pattern # None) /\ ~ReMatch(pattern[1], line))

\* One pass of _getLines in getUrc: a line it yields is returned, stripped,
\* unless a pattern was given and does not match it.
UrcRead ==
  \E d \in ReadDurations(call.timeout, rx) :
    LET got == ReadLine(rx)
        buf == buffer \o got
    IN  /\ rx' = Drop(rx, Len(got))
        /\ elapsed' = Later(elapsed, d, call.timeout)
        /\ gen' = gen
        /\ IF ~HasLine(buf)
           THEN /\ buffer' = buf
                /\ UNCHANGED <<taken, delivered, seen, dropped, outcome, pc>>
           ELSE /\ buffer' = BufferAfterYield(buf)
                /\ taken' = taken + 1
                /\ seen' = Append(seen, buf)
                /\ IF UrcWanted(call.pattern, buf)
                   THEN /\ outcome' = [kind |-> IF call.op = "next" THEN "yield" ELSE "urc",
                                       value |-> Rstrip(buf)]
                        /\ delivered' = Append(delivered, [ordinal |-> taken + 1, line |-> Rstrip(buf)])
                        /\ pc' = "idle"
                        /\ dropped' = dropped
                   ELSE /\ dropped' = Append(dropped, Rstrip(buf))
                        /\ UNCHANGED <<delivered, outcome, pc>>

UrcStep ==
  /\ pc = "urc"
  /\ IF GetLinesExpired(elapsed, call.timeout) THEN UrcTimeout ELSE UrcRead
  /\ UNCHANGED <<callerVars, sockVars, parseVars, echo, tx, call, data, prompt, pre, sent, ncalls>>

\* getUrc(pattern, timeout), to its first read.
GetUrc ==
  /\ pc = "idle" /\ prompt = None /\ ncalls < MaxUrcCalls
  /\ \E pattern \in Patterns, timeout \in Timeouts :
       call' = Call("getUrc", None, pattern, timeout)
  /\ pc' = "urc"
  /\ elapsed' = 0
  /\ seen' = <<>>
  /\ dropped' = dropped
  /\ outcome' = NoOutcome
  /\ ncalls' = ncalls + 1
  /\ UNCHANGED <<callerVars, sockVars, parseVars, echo, rx, tx, buffer, data, gen, prompt, taken, delivered,
                 pre, sent>>

\* getUrcs(pattern, timeout): the generator, which runs nothing until pulled.
GetUrcs ==
  /\ pc = "idle" /\ prompt = None
  /\ \E pattern \in Patterns, timeout \in Timeouts :
       /\ gen' = Some([pattern |-> pattern, timeout |-> timeout, done |-> FALSE])
       /\ call' = Call("getUrcs", None, pattern, timeout)
  /\ outcome' = [kind |-> "generator", value |-> None]
  /\ UNCHANGED <<callerVars, sockVars, parseVars, echo, rx, tx, buffer, pc, elapsed, data, prompt, taken,
                 delivered, pre, seen, dropped, sent, ncalls>>

\* The consumer pulls the next notification from the generator: a finished
\* generator has nothing more, a live one calls getUrc.
GenNext ==
  /\ pc = "idle" /\ prompt = None /\ gen # None
  /\ gen[1].done \/ ncalls < MaxUrcCalls
  /\ ncalls' = IF gen[1].done THEN ncalls ELSE ncalls + 1
  /\ call' = Call("next", None, gen[1].pattern, gen[1].timeout)
  /\ IF gen[1].done
     THEN pc' = "idle" /\ outcome' = [kind |-> "stop", value |-> None]
     ELSE pc' = "urc" /\ outcome' = NoOutcome
  /\ elapsed' = 0
  /\ seen' = <<>>
  /\ dropped' = dropped
  /\ UNCHANGED <<callerVars, sockVars, parseVars, echo, rx, tx, buffer, data, gen, prompt, taken, delivered,
                 pre, sent>>

\* startPrompt(dynamic)
StartPrompt ==
  /\ pc = "idle" /\ prompt = None /\ ncalls < MaxCalls
  /\ \E dynamic \in BOOLEAN :
       prompt' = Some([dynamic |-> dynamic, command |-> None, payload |-> <<>>, writes |-> 0])
  /\ tx' = <<>>
  /\ outcome' = NoOutcome
  /\ ncalls' = ncalls + 1
  /\ UNCHANGED <<callerVars, sockVars, parseVars, echo, rx, buffer, pc, call, elapsed, data, gen, taken,
                 delivered, pre, seen, dropped, sent>>

\* Prompt.startCommand(command), to the first read of _beginCommand.
PromptStartCommand ==
  /\ pc = "idle" /\ prompt # None /\ prompt[1].command = None
  /\ \E c \in Commands, w \in WriteResults(T_AT) :
       /\ call' = Call("startCommand", Some(Rstrip(c)), None, 0)
       /\ tx' = tx \o w.wrote
       /\ rx' = rx \o Echoed(w.wrote)
       /\ IF w.ok
          THEN /\ pc' = "drain" /\ outcome' = NoOutcome
               /\ prompt' = Some([prompt[1] EXCEPT !.command = Some(Rstrip(c))])
          ELSE pc' = "idle" /\ outcome' = CommError("write") /\ prompt' = None
  /\ elapsed' = 0
  /\ pre' = CountLines(rx)
  /\ UNCHANGED <<callerVars, sockVars, parseVars, echo, buffer, data, gen, taken, delivered, seen, dropped, sent, ncalls>>

\* Prompt.writeData(data)
PromptWriteData ==
  /\ pc = "idle" /\ prompt # None /\ prompt[1].command # None
  /\ prompt[1].writes < MaxData
  /\ \E payload \in Payloads : \E w \in WriteResults(payload) :
       /\ call' = Call("writeData", None, None, 0)
       /\ tx' = tx \o w.wrote
       /\ rx' = rx \o Echoed(w.wrote)
       /\ IF w.ok
          THEN /\ outcome' = [kind |-> "written", value |-> None]
               /\ prompt' = Some([prompt[1] EXCEPT !.payload = @ \o payload, !.writes = @ + 1])
          ELSE outcome' = CommError("write") /\ prompt' = None
  /\ UNCHANGED <<callerVars, sockVars, parseVars, echo, buffer, pc, elapsed, data, gen, taken, delivered, pre,
                 seen, dropped, sent, ncalls>>

\* A reading of finish that writes the terminator whatever the prompt.
FinishTerminatorAlways(dynamic) == <<SUB>>

\* Prompt.finish: the terminator a dynamic prompt writes before it waits.
FinishTerminator(dynamic) == IF dynamic THEN <<SUB>> ELSE <<>>

\* Prompt.finish(timeout), to the first read of _waitForResponse.
PromptFinish ==
  /\ pc = "idle" /\ prompt # None /\ prompt[1].command # None
  /\ \E timeout \in Timeouts :
       call' = Call("finish", prompt[1].command, None, timeout)
  /\ \E w \in IF FinishTerminator(prompt[1].dynamic) # <<>>
              THEN WriteResults(FinishTerminator(prompt[1].dynamic))
              ELSE {[ok |-> TRUE, wrote |-> <<>>]} :
       /\ tx' = tx \o w.wrote
       /\ rx' = rx \o Echoed(w.wrote)
       /\ IF w.ok
          THEN pc' = "wait" /\ outcome' = NoOutcome /\ prompt' = prompt
          ELSE pc' = "idle" /\ outcome' = CommError("write") /\ prompt' = None
  /\ elapsed' = 0
  /\ data' = <<>>
  /\ UNCHANGED <<callerVars, sockVars, parseVars, echo, buffer, gen, taken, delivered, pre, seen, dropped, sent, ncalls>>

\* ------------------------------------------------------ specifications

IdleInterface ==
  /\ rx = <<>> /\ tx = <<>> /\ buffer = <<>>
  /\ pc = "idle" /\ call = NoCall /\ elapsed = 0 /\ data = <<>>
  /\ outcome = NoOutcome /\ gen = None /\ prompt = None
  /\ taken = 0 /\ delivered = <<>> /\ pre = 0 /\ seen = <<>> /\ dropped = <<>>
  /\ sent = 0 /\ ncalls = 0

\* The interface after construction, its buffers cleared.
Init ==
  /\ arg = None /\ ret = None
  /\ echo \in BOOLEAN
  /\ IdleInterface
  /\ NoSockets
  /\ NoCallers

\* Command and response exchanges against a device that sends what it will.
Next ==
  \/ DeviceSend
  \/ SendCommand
  \/ DrainStep
  \/ WaitStep

Spec == Init /\ [][Next]_vars

\* Notification waits.
NextUrc ==
  \/ DeviceSend
  \/ GetUrc
  \/ GetUrcs
  \/ GenNext
  \/ UrcStep

\* Nothing is written while waiting for notifications, so the echo is left out.
InitUrc ==
  /\ arg = None /\ ret = None
  /\ echo = FALSE
  /\ IdleInterface
  /\ NoSockets
  /\ NoCallers

SpecUrc == InitUrc /\ [][NextUrc]_vars

\* A caller that waits for a notification and then goes on to wait for
\* others or to send a command.
\* getUrcs as a later call of a caller that has had getUrc drop a line.
GetUrcsLater ==
  /\ dropped # <<>> /\ gen = None /\ call.op = "getUrc"
  /\ GetUrcs

NextDrop ==
  \/ DeviceSend
  \/ GetUrc
  \/ GetUrcsLater
  \/ GenNext
  \/ UrcStep
  \/ SendCommandLater
  \/ DrainStep
  \/ WaitStep

SpecDrop == InitUrc /\ [][NextDrop]_vars

\* Prompt exchanges.
NextPrompt ==
  \/ DeviceSend
  \/ StartPrompt
  \/ PromptStartCommand
  \/ DrainStep
  \/ PromptWriteData
  \/ PromptFinish
  \/ WaitStep

SpecPrompt == InitUrc /\ [][NextPrompt]_vars

\* The parsers on their own: every reply and every status line of the
\* bounded sets, parsed once.
InitParse ==
  /\ arg \in ReplyArgs \cup StatusArgs /\ ret = None
  /\ echo = FALSE
  /\ IdleInterface
  /\ NoSockets
  /\ NoCallers

NextParse == MakeResponse \/ MakeResults

SpecParse == InitParse /\ [][NextParse]_vars


\* ------------------------------------------------------------ properties

\* The last line of a text, with the line terminator that ends the text taken
\* off first.
LastLineOf(text) ==
  LET t == IF EndsWith(text, NewLine) THEN Take(text, Len(text) - 2) ELSE text
  IN  IF RFind(t, NewLine) = -1 THEN t ELSE Drop(t, RFind(t, NewLine) + 2)

\* The text before the last line of a text.
BeforeLastLineOf(text) ==
  LET t == IF EndsWith(text, NewLine) THEN Take(text, Len(text) - 2) ELSE text
  IN  IF RFind(t, NewLine) = -1 THEN <<>> ELSE Take(t, RFind(t, NewLine))

\* The bytes sendCommand asks the port to write for a caller text.
WireOf(command) ==
  <<"A", "T">> \o (IF Len(command) >= 2 /\ command[1] \in {"A", "a"} /\ command[2] \in {"T", "t"}
            THEN Drop(command, 2) ELSE command) \o <<"\r">>

SendCommandEnded == call.op = "sendCommand" /\ pc = "idle"

C2_DrainRemovesAll ==
  (call.op = "sendCommand" /\ outcome.kind = "response") => pre = 0

\* The number a numbered line carries: the device numbers its chunks in the
\* order it sends them.  0 for a line without one.
LineNumber(line) ==
  IF line # <<>> /\ line[Len(line)] \in Digits THEN DigitValue(line[Len(line)]) ELSE 0

\* C3: across getUrc and getUrcs calls the lines returned are lines of the
\* transport in arrival order, each returned once: the positions in the
\* stream of the lines returned grow strictly, every line returned is a single
\* line of the stream, and the numbered lines come back in the order sent.
C3_ArrivalOrder ==
  /\ \A i, j \in DOMAIN delivered :
       i < j => /\ delivered[i].ordinal < delivered[j].ordinal
                /\ (LineNumber(delivered[i].line) > 0 /\ LineNumber(delivered[j].line) > 0)
                     => LineNumber(delivered[i].line) < LineNumber(delivered[j].line)
  /\ \A i \in DOMAIN delivered :
       /\ ~Contains(delivered[i].line, <<"\n">>)
       /\ delivered[i].ordinal <= taken
       /\ LineNumber(delivered[i].line) <= sent

\* C3 witness: two calls have each returned a numbered line.
C3_Witness ==
  /\ Len(delivered) = 2
  /\ LineNumber(delivered[1].line) = 1
  /\ LineNumber(delivered[2].line) = 2

\* C4: a reply <output> CR LF OK CR LF parses to a Response whose result is
\* Ok and which is boolean-true, whatever command is given for echo filtering;
\* with no command given its output is exactly the text before the status
\* line.
C4_OkReply ==
  (arg # None /\ arg.kind = "reply" /\ arg.last = <<"O", "K">> /\ ret # None) =>
    /\ ret[1] # None
    /\ ret[1][1].result = ResultOk
    /\ ResponseBool(ret[1][1])
    /\ arg.command = None => ret[1][1].output = arg.output

\* C4 witness: a reply with two lines of output and OK, no command given, has
\* been parsed.
C4_Witness ==
  /\ arg # None /\ arg.kind = "reply" /\ arg.last = <<"O", "K">> /\ arg.command = None
  /\ arg.output = <<"+", "C", "S", "Q", ":", " ", "1", "\r", "\n", "d", "a", "t", "a", " ">>
  /\ ret # None

\* A line without its leading +.
Unplus(line) == IF line # <<>> /\ line[1] = "+" THEN Tail(line) ELSE line

\* Whether a line is <FAMILY> ERROR: <code-or-name> for the family.
IsFamilyError(line, variant) ==
  /\ StartsWith(line, FamilyText(variant) \o <<" ", "E", "R", "R", "O", "R", ":">>)
  /\ LET field == Lstrip(Drop(line, Len(FamilyText(variant)) + 7))
     IN  IsIntLiteral(field) \/ field \in TableNames(FamilyTable(variant))

\* Whether a line is one of the terminal status lines.
IsStatusLine(line) ==
  \/ line = <<"O", "K">>
  \/ Unplus(line) = <<"E", "R", "R", "O", "R">>
  \/ \E v \in Families : IsFamilyError(Unplus(line), v)

\* C5 as stated: a reply is taken as complete only when its last line is OK,
\* ERROR or a family error line of the form <FAMILY> ERROR: <code-or-name>,
\* each but OK with or without a leading +.
C5_OnlyStatusLines ==
  (arg # None /\ arg.kind = "reply" /\ ret # None /\ ret[1] # None) =>
    IsStatusLine(arg.last)

\* C6: for an entry of the CME or CMS table, the status lines with the code
\* and with the name, each with and without the leading +, all parse to a
\* Result of that family with that code, and the four compare equal.
C6_CodeAndName ==
  (arg # None /\ arg.kind = "status" /\ ret # None) =>
    LET r == ret[1]
        all == {r.byCode, r.byCodePlus, r.byName, r.byNamePlus}
    IN  /\ \A x \in all : x = Some(Result(Some(Error(arg.variant, Some(arg.code)))))
        /\ \A x, y \in all : x # None /\ y # None /\ ResultEq(x[1], y[1])

\* C6 witness: the four status lines of a CMS table entry have been parsed.
C6_Witness ==
  /\ arg # None /\ arg.kind = "status" /\ arg.variant = Cms /\ arg.code = 500
  /\ ret # None

\* C7 as stated: with an echoing transport, when the text sendCommand read
\* begins with the echo of what it wrote, the output of the Response is the
\* device's own output, the text between the echo and the status line with
\* the line endings in front of it taken off, and nothing of the echo.
C7_EchoFiltered ==
  (/\ echo
   /\ call.op = "sendCommand" /\ outcome.kind = "response"
   /\ StartsWith(data, WireOf(call.command[1])))
  => outcome.value.output
       = Lstrip(BeforeLastLineOf(Drop(data, Len(WireOf(call.command[1])))))

\* Whether the pattern, a literal text, matches at the start of the line.
MatchesAtStart(pattern, line) == pattern = None \/ StartsWith(line, pattern[1])

\* Whether the pattern, a literal text, matches somewhere in the line.
MatchesAnywhere(pattern, line) == pattern = None \/ Contains(line, pattern[1])

GetUrcEnded == call.op = "getUrc" /\ pc = "idle"

\* C8 (as amended): getUrc returns the first line, in arrival order, that the
\* pattern matches from the first character of the line on, without its
\* trailing line endings; it raises CommError when the deadline has elapsed
\* and no line read matched in that way.
C8_FirstMatchAtStart ==
  GetUrcEnded =>
    \/ /\ outcome.kind = "urc"
       /\ seen # <<>>
       /\ MatchesAtStart(call.pattern, seen[Len(seen)])
       /\ \A i \in 1..(Len(seen) - 1) : ~MatchesAtStart(call.pattern, seen[i])
       /\ outcome.value \o NewLine = seen[Len(seen)]
    \/ /\ outcome = CommError("urc")
       /\ elapsed > call.timeout
       /\ \A i \in DOMAIN seen : ~MatchesAtStart(call.pattern, seen[i])

\* C8 witness: getUrc has passed over lines that do not begin with the
\* pattern and returned a later line that does.
C8_Witness ==
  /\ GetUrcEnded
  /\ outcome.kind = "urc"
  /\ Len(seen) >= 2
  /\ call.pattern # None
  /\ outcome.value = <<"+", "C", "R", "E", "G", ":", " ", "2">>

\* C8 as stated: getUrc returns the first line in which the pattern matches
\* anywhere, and raises CommError only if no such line arrived.
C8_FirstMatchAnywhere ==
  GetUrcEnded =>
    \/ /\ outcome.kind = "urc"
       /\ seen # <<>>
       /\ MatchesAnywhere(call.pattern, seen[Len(seen)])
       /\ \A i \in 1..(Len(seen) - 1) : ~MatchesAnywhere(call.pattern, seen[i])
       /\ outcome.value \o NewLine = seen[Len(seen)]
    \/ /\ outcome = CommError("urc")
       /\ elapsed > call.timeout
       /\ \A i \in DOMAIN seen : ~MatchesAnywhere(call.pattern, seen[i])

\* C9: a pull on the getUrcs sequence never ends in CommError; a wait that
\* times out ends the sequence, and a sequence that has ended yields nothing
\* more.
C9_EndsWithoutRaising ==
  (call.op = "next" /\ pc = "idle") =>
    /\ outcome.kind \in {"yield", "stop"}
    /\ outcome.kind = "stop" <=> gen[1].done
    /\ outcome.kind = "stop" => elapsed > call.timeout \/ elapsed = 0

\* C9 witness: the sequence has yielded a notification and then ended on a
\* wait that timed out.
C9_Witness ==
  /\ call.op = "next" /\ pc = "idle"
  /\ outcome.kind = "stop"
  /\ gen # None /\ gen[1].done
  /\ delivered # <<>>

MaxFactoryCalls == 2

\* How many of the sessions it holds the caller goes on to use.
MaxSessions == 1

\* s.strip()
Strip(s) == Lstrip(Rstrip(s))

\* s.split(sep) for a separator of any length.
RECURSIVE SplitOn(_, _)
SplitOn(s, sep) ==
  LET i == Find(s, sep)
  IN  IF i = -1 THEN <<s>>
      ELSE <<Take(s, i)>> \o SplitOn(Drop(s, i + Len(sep)), sep)

\* s.split(sep, maxsplit = 1) for a one-character separator.
SplitOnce(s, sep) ==
  LET i == Find(s, <<sep>>)
  IN  IF i = -1 THEN <<s>> ELSE <<Take(s, i), Drop(s, i + 1)>>

\* Response.lines
ResponseLines(output) == SplitOn(output, NewLine)

\* An id as an f-string or str.format prints it.
IdText(id) == IF id = None THEN <<"N", "o", "n", "e">> ELSE NatText(id[1])

\* Lines joined into an output, the way Response.makeFromString leaves them.
RECURSIVE JoinOutput(_)
JoinOutput(lines) ==
  IF lines = <<>> THEN <<>>
  ELSE IF Len(lines) = 1 THEN lines[1]
  ELSE lines[1] \o NewLine \o JoinOutput(Tail(lines))

\* What at.sendCommand does: it raises CommError, or it returns a Response
\* with a result and an output.
Raised == [raised |-> TRUE, result |-> ResultOk, output |-> <<>>]

Replied(result, output) == [raised |-> FALSE, result |-> result, output |-> output]

\* The result of a plain ERROR reply.
ErrorResult == Result(Some(Error(General, None)))

\* bool(response)
ReplyOk(r) == ResultBool(r.result)

\* Replies to a command whose output is not looked at.
PlainReplies == {Raised, Replied(ErrorResult, <<>>), Replied(ResultOk, <<>>)}

\* A socket instance.  id is sessionId (A), connId (B) or socketId (C);
\* isOpen is family B's flag; connected and closed record whether connect()
\* and close() have returned normally on it.
Session(id, isOpen) ==
  [id |-> id, isOpen |-> isOpen, connected |-> FALSE, closed |-> FALSE]

\* How a method ended: returned a value, or raised an exception of a kind.
Ended(kind, value) == [kind |-> kind, value |-> value]

Returned(value) == Ended("returned", value)

\* The sessions the caller uses.
Used == {s \in DOMAIN sessions : s <= MaxSessions}

\* The record of a call that has ended, and what it gave the transport.
Done(op, s, end, written) ==
  /\ lastCall' = [op |-> op, session |-> s, kind |-> end.kind, value |-> end.value]
  /\ wire' = written

\* The address the caller connects to.
Address == [host |-> <<"h">>, port |-> 80]

\* ------------------------------------------------ family B (TG1WWG)

\* Socket.__init__: the connection ids of the modem.
PoolIds == <<1, 2, 3, 4, 5, 6, 7, 8, 9, 10>>

\* Replies to AT#SGACT?: a context that is active, one that is not, and replies
\* whose state field is missing or is not a number.
SgactReplies ==
  PlainReplies \cup
  { Replied(ResultOk, <<"#", "S", "G", "A", "C", "T", ":", " ", "1", ",", "1">>), Replied(ResultOk, <<"#", "S", "G", "A", "C", "T", ":", " ", "1", ",", "0", "\r", "\n", "#", "S", "G", "A", "C", "T", ":", " ", "3", ",", "0">>),
    Replied(ResultOk, <<"#", "S", "G", "A", "C", "T", ":", " ", "1">>), Replied(ResultOk, <<"#", "S", "G", "A", "C", "T", ":", " ", "1", ",", "x">>) }

\* _activeContexts, the loop over response.lines: the number of active
\* contexts, or the exception the parsing raises.
RECURSIVE CountActive(_)
CountActive(lines) ==
  IF lines = <<>> THEN Returned(0)
  ELSE IF ~Contains(Head(lines), <<"#", "S", "G", "A", "C", "T", ":", " ">>) THEN CountActive(Tail(lines))
  ELSE LET splitLine == Split(Head(lines), ",")
       IN  IF Len(splitLine) < 2 THEN Ended("IndexError", None)
           ELSE IF ~IsIntLiteral(Strip(splitLine[2])) THEN Ended("ValueError", None)
           ELSE LET rest == CountActive(Tail(lines))
                IN  IF rest.kind # "returned" THEN rest
                    ELSE Returned(rest.value + (IF IntValue(Strip(splitLine[2])) = 1 THEN 1 ELSE 0))

\* Socket._activeContexts
ActiveContexts(r) ==
  IF r.raised THEN Ended("CommError", None)
  ELSE IF ~ReplyOk(r) THEN Ended("AtError", None)
  ELSE CountActive(ResponseLines(r.output))

\* A reading of _activateContexts that does not look at how many contexts
\* are active.
ActivateContextsAlways(r1, r2, r3) ==
  LET active == ActiveContexts(r1)
      q == <<<<"A", "T", "#", "S", "G", "A", "C", "T", "?">>>>
  IN  IF active.kind # "returned" THEN [end |-> active, wire |-> q]
      ELSE IF r2.raised THEN [end |-> Ended("CommError", None), wire |-> q \o <<<<"A", "T", "#", "S", "G", "A", "C", "T", "=", "1", ",", "1">>>>]
      ELSE IF ReplyOk(r2) THEN [end |-> Returned(None), wire |-> q \o <<<<"A", "T", "#", "S", "G", "A", "C", "T", "=", "1", ",", "1">>>>]
      ELSE IF r3.raised
      THEN [end |-> Ended("CommError", None), wire |-> q \o <<<<"A", "T", "#", "S", "G", "A", "C", "T", "=", "1", ",", "1">>, <<"A", "T", "#", "S", "G", "A", "C", "T", "=", "3", ",", "1">>>>]
      ELSE IF ReplyOk(r3)
      THEN [end |-> Returned(None), wire |-> q \o <<<<"A", "T", "#", "S", "G", "A", "C", "T", "=", "1", ",", "1">>, <<"A", "T", "#", "S", "G", "A", "C", "T", "=", "3", ",", "1">>>>]
      ELSE [end |-> Ended("OSError", None), wire |-> q \o <<<<"A", "T", "#", "S", "G", "A", "C", "T", "=", "1", ",", "1">>, <<"A", "T", "#", "S", "G", "A", "C", "T", "=", "3", ",", "1">>>>]

\* Socket._activateContexts, given the replies to AT#SGACT?, AT#SGACT=1,1 and
\* AT#SGACT=3,1: how it ends and what it wrote.
ActivateContexts(r1, r2, r3) ==
  LET active == ActiveContexts(r1)
      q == <<<<"A", "T", "#", "S", "G", "A", "C", "T", "?">>>>
  IN  IF active.kind # "returned" THEN [end |-> active, wire |-> q]
      ELSE IF active.value > 0 THEN [end |-> Returned(None), wire |-> q]
      ELSE IF r2.raised THEN [end |-> Ended("CommError", None), wire |-> q \o <<<<"A", "T", "#", "S", "G", "A", "C", "T", "=", "1", ",", "1">>>>]
      ELSE IF ReplyOk(r2) THEN [end |-> Returned(None), wire |-> q \o <<<<"A", "T", "#", "S", "G", "A", "C", "T", "=", "1", ",", "1">>>>]
      ELSE IF r3.raised
      THEN [end |-> Ended("CommError", None), wire |-> q \o <<<<"A", "T", "#", "S", "G", "A", "C", "T", "=", "1", ",", "1">>, <<"A", "T", "#", "S", "G", "A", "C", "T", "=", "3", ",", "1">>>>]
      ELSE IF ReplyOk(r3)
      THEN [end |-> Returned(None), wire |-> q \o <<<<"A", "T", "#", "S", "G", "A", "C", "T", "=", "1", ",", "1">>, <<"A", "T", "#", "S", "G", "A", "C", "T", "=", "3", ",", "1">>>>]
      ELSE [end |-> Ended("OSError", None), wire |-> q \o <<<<"A", "T", "#", "S", "G", "A", "C", "T", "=", "1", ",", "1">>, <<"A", "T", "#", "S", "G", "A", "C", "T", "=", "3", ",", "1">>>>]

\* The ways _activateContexts ends, over the replies of the modem.
Activations ==
  { ActivateContexts(r1, r2, r3) :
      r1 \in SgactReplies, r2 \in PlainReplies, r3 \in PlainReplies }

\* Instance.__init__: availableConnIds after pop().
PoolAfterPop(pool) == Take(pool, Len(pool) - 1)

\* A reading of close that puts the id back twice.
PoolAfterCloseTwice(pool, id) == pool \o <<id, id>>

\* Instance.close: availableConnIds after append(connId).
PoolAfterClose(pool, id) == Append(pool, id)

\* Instance.__init__: the connection id the new instance holds.
InstanceConnId(pool) == IF Len(pool) > 0 THEN Some(pool[Len(pool)]) ELSE None

\* A reading of Socket.__call__ that returns the instance whatever it holds.
FactoryReturnsAlways(connId) == TRUE

\* Socket.__call__: the instance is returned unless its connId is None.
FactoryReturns(connId) == ~(connId = None)

\* Socket.__call__ of family B: activate the contexts, make an instance, which
\* takes an id from the pool if there is one, and return it, or None when it
\* has no id.
BFactoryWith(act) ==
  /\ family = "B"
  /\ Len(sessions) < Len(PoolIds) + MaxFactoryCalls
  /\ LET connId == InstanceConnId(availableConnIds)
     IN  IF act.end.kind # "returned"
         THEN /\ Done("factory", 0, act.end, act.wire)
              /\ UNCHANGED <<sessions, availableConnIds>>
         ELSE /\ availableConnIds' = IF Len(availableConnIds) > 0
                                     THEN PoolAfterPop(availableConnIds)
                                     ELSE availableConnIds
              /\ IF FactoryReturns(connId)
                 THEN /\ sessions' = Append(sessions, Session(connId, FALSE))
                      /\ Done("factory", Len(sessions) + 1, Returned(connId), act.wire)
                 ELSE /\ Done("factory", 0, Returned(None), act.wire)
                      /\ UNCHANGED sessions
  /\ UNCHANGED <<family, device, parseVars, ifaceVars, callerVars>>

\* Socket.__call__ of family B, whatever the modem replies.
BFactory == \E act \in Activations : BFactoryWith(act)

\* Instance.close of family B
BClose ==
  /\ family = "B"
  /\ \E s \in Used, r \in PlainReplies :
       LET x == sessions[s]
           cmd == <<"A", "T", "#", "S", "H", "=">> \o IdText(x.id)
       IN  IF x.id = None
           THEN /\ Done("close", s, Returned(None), <<>>)
                /\ sessions' = [sessions EXCEPT ![s].closed = TRUE]
                /\ UNCHANGED availableConnIds
           ELSE IF r.raised
           THEN /\ Done("close", s, Ended("CommError", None), <<cmd>>)
                /\ UNCHANGED <<sessions, availableConnIds>>
           ELSE IF ~ReplyOk(r)
           THEN /\ Done("close", s, Ended("AtError", None), <<cmd>>)
                /\ UNCHANGED <<sessions, availableConnIds>>
           ELSE /\ Done("close", s, Returned(None), <<cmd>>)
                /\ availableConnIds' = PoolAfterClose(availableConnIds, x.id[1])
                /\ sessions' = [sessions EXCEPT ![s].id = None, ![s].closed = TRUE]
  /\ UNCHANGED <<family, device, parseVars, ifaceVars, callerVars>>

\* Instance.connect of family B
BConnect ==
  /\ family = "B"
  /\ \E s \in Used, r \in PlainReplies :
       LET x == sessions[s]
           cmd == <<"A", "T", "#", "S", "D", "=">> \o IdText(x.id) \o <<",", "0", ",">> \o NatText(Address.port)
                    \o <<",", "\"">> \o Address.host \o <<"\"", ",", "0", ",", "0", ",", "1">>
       IN  IF x.id = None
           THEN /\ Done("connect", s, Ended("OSError", None), <<>>)
                /\ UNCHANGED sessions
           ELSE IF r.raised
           THEN /\ Done("connect", s, Ended("CommError", None), <<cmd>>)
                /\ UNCHANGED sessions
           ELSE IF ~ReplyOk(r)
           THEN /\ Done("connect", s, Ended("OSError", None), <<cmd>>)
                /\ UNCHANGED sessions
           ELSE /\ Done("connect", s, Returned(None), <<cmd>>)
                /\ sessions' = [sessions EXCEPT ![s].isOpen = TRUE, ![s].connected = TRUE]
  /\ UNCHANGED <<family, availableConnIds, device, parseVars, ifaceVars, callerVars>>

\* The data the caller sends.
SendData == <<"h", "i">>

\* The buffer sizes the caller asks recv for: one out of range, one in range.
Bufsizes == {0, 2}

\* The buffer sizes the caller asks for where recv does not check them.
InRangeBufsizes == {b \in Bufsizes : b >= 1}

\* Where a send goes wrong: at the write of the command, at the wait for the
\* prompt or CONNECT, at the write of the data, at the wait for OK, or nowhere.
SendFaults == {"command", "prompt", "data", "ok", "none"}

\* Instance.send of family B
BSend ==
  /\ family = "B"
  /\ \E s \in Used, fault \in SendFaults \ {"ok"} :
       LET x == sessions[s]
           cmd == <<"A", "T", "#", "S", "S", "E", "N", "D", "E", "X", "T", "=">> \o IdText(x.id) \o <<",">> \o NatText(Len(SendData)) \o <<"\r", "\n">>
       IN  IF x.id = None THEN Done("send", s, Ended("OSError", None), <<>>)
           ELSE IF ~x.isOpen THEN Done("send", s, Ended("OSError", None), <<>>)
           ELSE IF fault = "command" THEN Done("send", s, Ended("CommError", None), <<cmd>>)
           ELSE IF fault = "prompt" THEN Done("send", s, Ended("AtError", None), <<cmd>>)
           ELSE IF fault = "data" THEN Done("send", s, Ended("CommError", None), <<cmd, SendData>>)
           ELSE Done("send", s, Returned(Some(Len(SendData))), <<cmd, SendData>>)
  /\ UNCHANGED <<family, sessions, availableConnIds, device, parseVars, ifaceVars, callerVars>>

\* What the modem sends after AT#SRECV: the lines _getLines yields within its
\* deadline, the bytes that follow, and whether OK comes after them.
SrecvReply(lines, stream, ok) == [raised |-> FALSE, lines |-> lines, stream |-> stream, ok |-> ok]

\* The write of AT#SRECV fails.
SrecvRaised == [raised |-> TRUE, lines |-> <<>>, stream |-> <<>>, ok |-> FALSE]

SrecvReplies ==
  { SrecvRaised,
    SrecvReply(<<<<"\r", "\n">>, <<"#", "S", "R", "E", "C", "V", ":", " ", "1", ",", "2", "\r", "\n">>>>, <<"h", "i">>, TRUE),
    SrecvReply(<<<<"#", "S", "R", "E", "C", "V", ":", " ", "1", ",", "2", "\r", "\n">>>>, <<"h", "i">>, FALSE),
    SrecvReply(<<>>, <<"h", "i">>, TRUE),
    SrecvReply(<<<<"S", "R", "E", "C", "V", ":", " ", "1", ",", "2", "\r", "\n">>>>, <<"h", "i">>, TRUE),
    SrecvReply(<<<<"#", "S", "R", "E", "C", "V", ":", " ", "1", "\r", "\n">>>>, <<"h", "i">>, TRUE),
    SrecvReply(<<<<"#", "S", "R", "E", "C", "V", ":", " ", "1", ",", "x", "\r", "\n">>>>, <<"h", "i">>, TRUE) }

\* Instance.recv of family B, the loop over the lines: the size the modem
\* announces, 0 when no line announces one, or the exception the parsing raises.
RECURSIVE SrecvSize(_)
SrecvSize(lines) ==
  IF lines = <<>> THEN Returned(0)
  ELSE IF ~Contains(Head(lines), <<"#", "S", "R", "E", "C", "V", ":", " ">>) THEN SrecvSize(Tail(lines))
  ELSE LET fields == Split(Head(lines), ",")
       IN  IF Len(fields) < 2 THEN Ended("IndexError", None)
           ELSE IF ~IsIntLiteral(Strip(fields[2])) THEN Ended("ValueError", None)
           ELSE Returned(IntValue(Strip(fields[2])))

\* Instance.recv of family B
BRecv ==
  /\ family = "B"
  /\ \E s \in Used, bufsize \in Bufsizes :
       IF (bufsize < 1) \/ (bufsize > 1500)
       THEN Done("recv", s, Ended("ValueError", None), <<>>)
       ELSE \E r \in SrecvReplies :
         LET x == sessions[s]
             cmd == <<"A", "T", "#", "S", "R", "E", "C", "V", "=">> \o IdText(x.id) \o <<",">> \o NatText(bufsize) \o <<"\r", "\n">>
             size == SrecvSize(r.lines)
         IN  IF r.raised THEN Done("recv", s, Ended("CommError", None), <<cmd>>)
             ELSE IF size.kind # "returned" THEN Done("recv", s, size, <<cmd>>)
             ELSE IF ~r.ok THEN Done("recv", s, Ended("OSError", None), <<cmd>>)
             ELSE Done("recv", s, Returned(Take(r.stream, size.value)), <<cmd>>)
  /\ UNCHANGED <<family, sessions, availableConnIds, device, parseVars, ifaceVars, callerVars>>

\* ------------------------------------------------ family A (SRC7611)

\* How many sockets the modem holds at most.
MaxDeviceSockets == 2

\* Socket.EOFPattern
EOFPattern == <<"-", "-", "E", "O", "F", "-", "-", "P", "a", "t", "t", "e", "r", "n", "-", "-">>

\* The id the modem gives its next socket: the lowest one free.
FreshId == CHOOSE i \in 1..(MaxDeviceSockets + 1) : i \notin device /\ \A j \in 1..(i - 1) : j \in device

DeviceHasRoom == Cardinality(device) < MaxDeviceSockets

\* Replies to AT+KCNXCFG?: with and without a configuration.
KcnxcfgReplies ==
  PlainReplies \cup {Replied(ResultOk, <<"+", "K", "C", "N", "X", "C", "F", "G", ":", " ", "1", ",", "\"", "G", "P", "R", "S", "\"">>)}

\* Socket.__call__ of family A: make an instance and create(), which only asks
\* the modem for its connection configuration.
AFactory ==
  /\ family = "A"
  /\ Len(sessions) < MaxFactoryCalls
  /\ \E r \in KcnxcfgReplies :
       IF r.raised
       THEN Done("factory", 0, Ended("CommError", None), <<<<"A", "T", "+", "K", "C", "N", "X", "C", "F", "G", "?">>>>) /\ UNCHANGED sessions
       ELSE IF ~ReplyOk(r)
       THEN Done("factory", 0, Ended("AtError", None), <<<<"A", "T", "+", "K", "C", "N", "X", "C", "F", "G", "?">>>>) /\ UNCHANGED sessions
       ELSE IF ~Contains(r.output, <<"+", "K", "C", "N", "X", "C", "F", "G", ":">>)
       THEN Done("factory", 0, Ended("Error", None), <<<<"A", "T", "+", "K", "C", "N", "X", "C", "F", "G", "?">>>>) /\ UNCHANGED sessions
       ELSE /\ Done("factory", Len(sessions) + 1, Returned(None), <<<<"A", "T", "+", "K", "C", "N", "X", "C", "F", "G", "?">>>>)
            /\ sessions' = Append(sessions, Session(None, FALSE))
  /\ UNCHANGED <<family, availableConnIds, device, parseVars, ifaceVars, callerVars>>

\* Instance.close of family A, with Instance.delete
AClose ==
  /\ family = "A"
  /\ \E s \in Used, r1 \in PlainReplies, r2 \in PlainReplies :
       LET x == sessions[s]
           close == <<"A", "T", "+", "K", "T", "C", "P", "C", "L", "O", "S", "E", "=">> \o IdText(x.id)
           del == <<"A", "T", "+", "K", "T", "C", "P", "D", "E", "L", "=">> \o IdText(x.id)
       IN  IF x.id = None
           THEN /\ Done("close", s, Returned(None), <<>>)
                /\ sessions' = [sessions EXCEPT ![s].closed = TRUE]
                /\ UNCHANGED device
           ELSE IF r1.raised
           THEN /\ Done("close", s, Ended("CommError", None), <<close>>)
                /\ UNCHANGED <<sessions, device>>
           ELSE IF r2.raised
           THEN /\ Done("close", s, Ended("CommError", None), <<close, del>>)
                /\ UNCHANGED <<sessions, device>>
           ELSE IF ~ReplyOk(r2)
           THEN /\ Done("close", s, Ended("AtError", None), <<close, del>>)
                /\ UNCHANGED <<sessions, device>>
           ELSE /\ Done("close", s, Returned(None), <<close, del>>)
                /\ sessions' = [sessions EXCEPT ![s].id = None, ![s].closed = TRUE]
                /\ device' = device \ {x.id[1]}
  /\ UNCHANGED <<family, availableConnIds, parseVars, ifaceVars, callerVars>>

\* Replies to AT+KTCPCFG when the modem makes the socket n, and replies that
\* lack the line with the id or carry something else in its place.
KtcpcfgReplies(n) ==
  { Raised, Replied(ErrorResult, <<>>),
    Replied(ResultOk, <<"+", "K", "T", "C", "P", "C", "F", "G", ":", " ">> \o NatText(n)),
    Replied(ResultOk, <<>>),
    Replied(ResultOk, <<"+", "K", "T", "C", "P", "C", "F", "G", ":", " ", "x">>),
    Replied(ResultOk, <<"+", "K", "T", "C", "P", "C", "F", "G", ":">>) }

\* Whether a reply to AT+KTCPCFG tells of a socket made.
KtcpcfgMade(r, n) == r = Replied(ResultOk, <<"+", "K", "T", "C", "P", "C", "F", "G", ":", " ">> \o NatText(n))

\* Instance.connect of family A, the loop over response.lines: the session id
\* found, the one held before when no line has it, or the exception raised.
RECURSIVE KtcpcfgId(_, _)
KtcpcfgId(lines, held) ==
  IF lines = <<>> THEN Returned(held)
  ELSE IF ~Contains(Head(lines), <<"+", "K", "T", "C", "P", "C", "F", "G", ":", " ">>) THEN KtcpcfgId(Tail(lines), held)
  ELSE LET fields == Split(Head(lines), " ")
       IN  IF Len(fields) < 2 THEN Ended("IndexError", None)
           ELSE IF ~IsIntLiteral(fields[2]) THEN Ended("ValueError", None)
           ELSE Returned(Some(IntValue(fields[2])))

\* Instance.connect of family A: AT+KTCPCFG, AT+KTCPCNX, then the wait for the
\* +KTCP_IND notification, which getUrc ends with CommError when none comes.
AConnect ==
  /\ family = "A"
  /\ DeviceHasRoom
  /\ \E s \in Used, r1 \in KtcpcfgReplies(FreshId) :
       LET x == sessions[s]
           cfg == <<"A", "T", "+", "K", "T", "C", "P", "C", "F", "G", "=", "1", ",", "0", ",", "\"">> \o Address.host \o <<"\"", ",">> \o NatText(Address.port)
           found == IF r1.raised \/ ~ReplyOk(r1) THEN Returned(x.id)
                    ELSE KtcpcfgId(ResponseLines(r1.output), x.id)
           cnx == <<"A", "T", "+", "K", "T", "C", "P", "C", "N", "X", "=">> \o IdText(found.value)
           held == [sessions EXCEPT ![s].id = found.value]
       IN  /\ device' = IF KtcpcfgMade(r1, FreshId) THEN device \cup {FreshId} ELSE device
           /\ IF r1.raised
              THEN Done("connect", s, Ended("CommError", None), <<cfg>>) /\ UNCHANGED sessions
              ELSE IF ~ReplyOk(r1)
              THEN Done("connect", s, Ended("AtError", None), <<cfg>>) /\ UNCHANGED sessions
              ELSE IF found.kind # "returned"
              THEN Done("connect", s, found, <<cfg>>) /\ UNCHANGED sessions
              ELSE IF found.value = None
              THEN Done("connect", s, Ended("AtError", None), <<cfg>>) /\ UNCHANGED sessions
              ELSE \E r2 \in PlainReplies :
                     IF r2.raised
                     THEN Done("connect", s, Ended("CommError", None), <<cfg, cnx>>)
                          /\ sessions' = held
                     ELSE IF ~ReplyOk(r2)
                     THEN Done("connect", s, Ended("AtError", None), <<cfg, cnx>>)
                          /\ sessions' = held
                     ELSE \E urc \in BOOLEAN :
                            IF ~urc
                            THEN Done("connect", s, Ended("CommError", None), <<cfg, cnx>>)
                                 /\ sessions' = held
                            ELSE Done("connect", s, Returned(None), <<cfg, cnx>>)
                                 /\ sessions' = [held EXCEPT ![s].connected = TRUE]
  /\ UNCHANGED <<family, availableConnIds, parseVars, ifaceVars, callerVars>>

\* Instance.send of family A
ASend ==
  /\ family = "A"
  /\ \E s \in Used, fault \in SendFaults :
       LET x == sessions[s]
           cmd == <<"A", "T", "+", "K", "T", "C", "P", "S", "N", "D", "=">> \o IdText(x.id) \o <<",">> \o NatText(Len(SendData))
       IN  IF fault = "command" THEN Done("send", s, Ended("CommError", None), <<cmd>>)
           ELSE IF fault = "prompt" THEN Done("send", s, Ended("AtError", None), <<cmd>>)
           ELSE IF fault = "data" THEN Done("send", s, Ended("CommError", None), <<cmd, SendData>>)
           ELSE IF fault = "ok" THEN Done("send", s, Ended("AtError", None), <<cmd, SendData, EOFPattern>>)
           ELSE Done("send", s, Returned(Some(Len(SendData))), <<cmd, SendData, EOFPattern>>)
  /\ UNCHANGED <<family, sessions, availableConnIds, device, parseVars, ifaceVars, callerVars>>

\* output[start:end]
Slice(s, start, end) == SubSeq(s, Min(start, Len(s)) + 1, Min(end, Len(s)))

\* A reading of recv that skips CONNECT only, not the line ending after it.
SrcRecvStartShort(start) == start + 7

\* Instance.recv of family A: start += 9, past CONNECT and its line ending.
SrcRecvStart(start) == start + 9

\* Instance.recv of family A, from the response on.
SrcRecv(r) ==
  LET start == Find(r.output, <<"C", "O", "N", "N", "E", "C", "T">>)
      end == RFind(r.output, EOFPattern)
  IN  IF ~ReplyOk(r) THEN Returned(<<>>)
      ELSE IF start < 0 THEN Ended("AtError", None)
      ELSE IF end < 0 THEN Ended("AtError", None)
      ELSE Returned(Slice(r.output, SrcRecvStart(start), end))

\* Replies to AT+KTCPRCV in the socket model.
KtcprcvReplies ==
  { Raised, Replied(ErrorResult, <<>>),
    Replied(ResultOk, <<"C", "O", "N", "N", "E", "C", "T", "\r", "\n", "h", "i">> \o EOFPattern),
    Replied(ResultOk, <<"h", "i">> \o EOFPattern),
    Replied(ResultOk, <<"C", "O", "N", "N", "E", "C", "T", "\r", "\n", "h", "i">>) }

\* Instance.recv of family A
ARecv ==
  /\ family = "A"
  /\ \E s \in Used, bufsize \in InRangeBufsizes, r \in KtcprcvReplies :
       LET x == sessions[s]
           cmd == <<"A", "T", "+", "K", "T", "C", "P", "R", "C", "V", "=">> \o IdText(x.id) \o <<",">> \o NatText(bufsize)
       IN  IF r.raised THEN Done("recv", s, Ended("CommError", None), <<cmd>>)
           ELSE Done("recv", s, SrcRecv(r), <<cmd>>)
  /\ UNCHANGED <<family, sessions, availableConnIds, device, parseVars, ifaceVars, callerVars>>

\* ------------------------------------------------ family C (Nano)

\* The ids of a set in ascending order.
RECURSIVE Ascending(_)
Ascending(ids) ==
  IF ids = {} THEN <<>>
  ELSE LET m == CHOOSE i \in ids : \A j \in ids : i <= j
       IN  <<m>> \o Ascending(ids \ {m})

\* The reply to AT#XSOCKET?: a line for each socket of the modem, whole, or
\* with its last field missing.
ListingLines(ids, whole) ==
  [k \in 1..Len(ids) |->
     <<"#", "X", "S", "O", "C", "K", "E", "T", ":", " ">> \o NatText(ids[k]) \o (IF whole THEN <<",", "1", ",", "6">> ELSE <<",", "1">>)]

ListingReplies ==
  PlainReplies \cup
  { Replied(ResultOk, JoinOutput(ListingLines(Ascending(device), whole))) : whole \in BOOLEAN }

\* Instance.create, the loop over response.lines: the ids of the sockets
\* listed, lines it cannot read left out.
RECURSIVE ExistingSocketIds(_)
ExistingSocketIds(lines) ==
  IF lines = <<>> THEN <<>>
  ELSE LET fields == Split(Head(lines), ":")
           rest == ExistingSocketIds(Tail(lines))
       IN  IF Len(fields) < 2 THEN rest
           ELSE LET inner == Split(Strip(fields[2]), ",")
                IN  IF Len(inner) < 3 THEN rest
                    ELSE IF ~IsIntLiteral(inner[1]) THEN rest
                    ELSE <<IntValue(inner[1])>> \o rest

\* x in list
InList(x, list) == \E k \in 1..Len(list) : list[k] = x

\* Instance.create: the first id from 1 up that is not in the list.
RECURSIVE FirstFreeFrom(_, _)
FirstFreeFrom(socketId, existing) ==
  IF ~InList(socketId, existing) THEN socketId ELSE FirstFreeFrom(socketId + 1, existing)

\* Replies to AT#XSOCKET=n,1,<type>: the modem refuses when it has the socket
\* already; when it makes it, the reply names it, or is short of a field, of
\* the colon, or of a number.
CreateReplies(n) ==
  IF n \in device THEN {Raised, Replied(ErrorResult, <<>>)}
  ELSE { Raised, Replied(ErrorResult, <<>>),
         Replied(ResultOk, <<"#", "X", "S", "O", "C", "K", "E", "T", ":", " ">> \o NatText(n) \o <<",", "1">>),
         Replied(ResultOk, <<"#", "X", "S", "O", "C", "K", "E", "T", ":", " ">> \o NatText(n)),
         Replied(ResultOk, <<"#", "X", "S", "O", "C", "K", "E", "T", " ">> \o NatText(n) \o <<",", "1">>),
         Replied(ResultOk, <<"#", "X", "S", "O", "C", "K", "E", "T", ":", " ", "x", ",", "1">>) }

\* Instance.create, from the reply to AT#XSOCKET=n,...: the new socket id, or
\* the exception raised.
NewSocketId(r) ==
  LET fields == Split(ResponseLines(r.output)[1], ":")
  IN  IF ~ReplyOk(r) THEN Ended("OSError", None)
      ELSE IF Len(fields) # 2 THEN Ended("AtError", None)
      ELSE LET inner == Split(Strip(fields[2]), ",")
           IN  IF Len(inner) # 2 THEN Ended("AtError", None)
               ELSE IF ~IsIntLiteral(inner[1]) THEN Ended("ValueError", None)
               ELSE Returned(Some(IntValue(inner[1])))

\* The ids the caller passes as fileno: none, or the id of a socket.
Filenos == {None, Some(1)}

\* Socket.__call__ of family C: make an instance and create() it, which binds
\* it to the socket fileno when one is given and the modem lists it, and has
\* the modem make a socket otherwise.
CFactory ==
  /\ family = "C"
  /\ Len(sessions) < MaxFactoryCalls
  /\ DeviceHasRoom
  /\ \E fileno \in Filenos, r1 \in ListingReplies :
       LET existing == ExistingSocketIds(ResponseLines(r1.output))
           socketId == FirstFreeFrom(1, existing)
           ask == <<"A", "T", "#", "X", "S", "O", "C", "K", "E", "T", "=">> \o NatText(socketId) \o <<",", "1", ",", "1">>
           q == <<<<"A", "T", "#", "X", "S", "O", "C", "K", "E", "T", "?">>>>
       IN  IF r1.raised
           THEN Done("factory", 0, Ended("CommError", None), q) /\ UNCHANGED <<sessions, device>>
           ELSE IF ~ReplyOk(r1)
           THEN Done("factory", 0, Ended("AtError", None), q) /\ UNCHANGED <<sessions, device>>
           ELSE IF fileno # None
           THEN IF ~InList(fileno[1], existing)
                THEN Done("factory", 0, Ended("OSError", None), q) /\ UNCHANGED <<sessions, device>>
                ELSE /\ Done("factory", Len(sessions) + 1, Returned(fileno), q)
                     /\ sessions' = Append(sessions, Session(fileno, FALSE))
                     /\ UNCHANGED device
           ELSE \E r2 \in CreateReplies(socketId) :
                  LET new == NewSocketId(r2)
                  IN  /\ device' = IF ~r2.raised /\ ReplyOk(r2) THEN device \cup {socketId} ELSE device
                      /\ IF r2.raised
                         THEN Done("factory", 0, Ended("CommError", None), q \o <<ask>>)
                              /\ UNCHANGED sessions
                         ELSE IF new.kind # "returned"
                         THEN Done("factory", 0, new, q \o <<ask>>) /\ UNCHANGED sessions
                         ELSE /\ Done("factory", Len(sessions) + 1, new, q \o <<ask>>)
                              /\ sessions' = Append(sessions, Session(new.value, FALSE))
  /\ UNCHANGED <<family, availableConnIds, parseVars, ifaceVars, callerVars>>

\* Instance.close of family C
CClose ==
  /\ family = "C"
  /\ \E s \in Used, r \in PlainReplies :
       LET x == sessions[s]
           cmd == <<"A", "T", "#", "X", "S", "O", "C", "K", "E", "T", "=">> \o IdText(x.id) \o <<",", "0">>
       IN  IF x.id = None
           THEN /\ Done("close", s, Returned(None), <<>>)
                /\ sessions' = [sessions EXCEPT ![s].closed = TRUE]
                /\ UNCHANGED device
           ELSE IF r.raised
           THEN /\ Done("close", s, Ended("CommError", None), <<cmd>>)
                /\ UNCHANGED <<sessions, device>>
           ELSE /\ Done("close", s, Returned(None), <<cmd>>)
                /\ sessions' = [sessions EXCEPT ![s].id = None, ![s].closed = TRUE]
                /\ device' = IF ReplyOk(r) THEN device \ {x.id[1]} ELSE device
  /\ UNCHANGED <<family, availableConnIds, parseVars, ifaceVars, callerVars>>

\* Replies to AT#XTCPCONN: connected, not connected, and replies without the
\* colon or without a number.
XtcpconnReplies ==
  PlainReplies \cup
  { Replied(ResultOk, <<"#", "X", "T", "C", "P", "C", "O", "N", "N", ":", " ", "1">>), Replied(ResultOk, <<"#", "X", "T", "C", "P", "C", "O", "N", "N", ":", " ", "0">>),
    Replied(ResultOk, <<"#", "X", "T", "C", "P", "C", "O", "N", "N", ":", " ", "x">>) }

\* Instance.connect of family C, from the response on.
NanoConnect(r) ==
  LET fields == Split(ResponseLines(r.output)[1], ":")
  IN  IF ~ReplyOk(r) THEN Ended("OSError", None)
      ELSE IF Len(fields) # 2 THEN Ended("AtError", None)
      ELSE IF ~IsIntLiteral(Strip(fields[2])) THEN Ended("AtError", None)
      ELSE IF IntValue(Strip(fields[2])) = 0 THEN Ended("OSError", None)
      ELSE Returned(None)

\* Instance.connect of family C
CConnect ==
  /\ family = "C"
  /\ \E s \in Used, r \in XtcpconnReplies :
       LET x == sessions[s]
           cmd == <<"A", "T", "#", "X", "T", "C", "P", "C", "O", "N", "N", "=">> \o IdText(x.id) \o <<",", "\"">> \o Address.host \o <<"\"", ",">>
                    \o NatText(Address.port)
       IN  IF r.raised
           THEN Done("connect", s, Ended("CommError", None), <<cmd>>) /\ UNCHANGED sessions
           ELSE /\ Done("connect", s, NanoConnect(r), <<cmd>>)
                /\ sessions' = IF NanoConnect(r).kind = "returned"
                               THEN [sessions EXCEPT ![s].connected = TRUE] ELSE sessions
  /\ UNCHANGED <<family, availableConnIds, device, parseVars, ifaceVars, callerVars>>

\* Replies to AT#XTCPSEND once the data is written: the count sent, and
\* replies without the colon or without a number.
XtcpsendReplies ==
  { Raised, Replied(ErrorResult, <<>>),
    Replied(ResultOk, <<"#", "X", "T", "C", "P", "S", "E", "N", "D", ":", " ", "2">>), Replied(ResultOk, <<"h", "i", "\r", "\n", "#", "X", "T", "C", "P", "S", "E", "N", "D", ":", " ", "2">>),
    Replied(ResultOk, <<"#", "X", "T", "C", "P", "S", "E", "N", "D", " ", "2">>), Replied(ResultOk, <<"#", "X", "T", "C", "P", "S", "E", "N", "D", ":", " ", "x">>),
    Replied(ResultOk, <<>>) }

\* Instance.send of family C, from the response on.
NanoSend(r) ==
  LET lines == ResponseLines(r.output)
      fields == Split(lines[Len(lines)], ":")
  IN  IF ~ReplyOk(r) THEN Returned(Some(0))
      ELSE IF Len(fields) # 2 THEN Returned(Some(0))
      ELSE IF ~IsIntLiteral(Strip(fields[2])) THEN Returned(Some(0))
      ELSE Returned(Some(IntValue(Strip(fields[2]))))

\* Instance.send of family C: a prompt exchange with a fixed length.
CSend ==
  /\ family = "C"
  /\ \E s \in Used, r \in XtcpsendReplies :
       LET x == sessions[s]
           cmd == <<"A", "T", "#", "X", "T", "C", "P", "S", "E", "N", "D", "=">> \o IdText(x.id) \o <<",">> \o NatText(Len(SendData)) \o <<"\r">>
       IN  IF r.raised THEN Done("send", s, Ended("CommError", None), <<cmd, SendData>>)
           ELSE Done("send", s, NanoSend(r), <<cmd, SendData>>)
  /\ UNCHANGED <<family, sessions, availableConnIds, device, parseVars, ifaceVars, callerVars>>

\* A reading of recv that returns the payload whatever its length.
NanoRecvSizeOkAlways(size, payload) == TRUE

\* Instance.recv of family C: the declared size against the payload read.
NanoRecvSizeOk(size, payload) == ~(size # Len(payload))

\* Instance.recv of family C, from the response on.
NanoRecv(r) ==
  LET fields == SplitOnce(r.output, ":")
  IN  IF ~ReplyOk(r) THEN Returned(<<>>)
      ELSE IF Len(fields) # 2 THEN Returned(<<>>)
      ELSE LET inner == SplitOnce(fields[2], ",")
           IN  IF Len(inner) # 2 THEN Returned(<<>>)
               ELSE IF ~IsIntLiteral(inner[1]) THEN Returned(<<>>)
               ELSE IF ~NanoRecvSizeOk(IntValue(inner[1]), inner[2]) THEN Returned(<<>>)
               ELSE Returned(inner[2])

\* Replies to AT#XTCPRECV in the socket model.
XtcprecvReplies ==
  { Raised, Replied(ErrorResult, <<>>),
    Replied(ResultOk, <<"#", "X", "T", "C", "P", "R", "E", "C", "V", ":", " ", "2", ",", "h", "i">>), Replied(ResultOk, <<"#", "X", "T", "C", "P", "R", "E", "C", "V", ":", " ", "3", ",", "h", "i">>),
    Replied(ResultOk, <<>>) }

\* Instance.recv of family C
CRecv ==
  /\ family = "C"
  /\ \E s \in Used, bufsize \in InRangeBufsizes, r \in XtcprecvReplies :
       LET x == sessions[s]
           cmd == <<"A", "T", "#", "X", "T", "C", "P", "R", "E", "C", "V", "=">> \o IdText(x.id) \o <<",">> \o NatText(bufsize) \o <<",", "6", "0">>
       IN  IF r.raised THEN Done("recv", s, Ended("CommError", None), <<cmd>>)
           ELSE Done("recv", s, NanoRecv(r), <<cmd>>)
  /\ UNCHANGED <<family, sessions, availableConnIds, device, parseVars, ifaceVars, callerVars>>

\* ---------------------------------------------- socket specifications

\* A modem of one of the three families with its socket factory made and no
\* socket yet.
InitSock ==
  /\ arg = None /\ ret = None
  /\ echo = FALSE
  /\ IdleInterface
  /\ family \in {"A", "B", "C"}
  /\ sessions = <<>>
  /\ availableConnIds = (IF family = "B" THEN PoolIds ELSE <<>>)
  /\ device = {}
  /\ wire = <<>>
  /\ lastCall = NoLast
  /\ NoCallers

NextSock ==
  \/ AFactory \/ AClose \/ AConnect \/ ASend \/ ARecv
  \/ BFactory \/ BClose \/ BConnect \/ BSend \/ BRecv
  \/ CFactory \/ CClose \/ CConnect \/ CSend \/ CRecv

SpecSock == InitSock /\ [][NextSock]_vars

\* ---------------------- family B: the factory, the replies of the modem known

\* The replies the modem gives to AT#SGACT?, AT#SGACT=1,1 and AT#SGACT=3,1.
ActivationArgs ==
  { [kind |-> "activate", r1 |-> r1, r2 |-> r2, r3 |-> r3] :
      r1 \in SgactReplies, r2 \in PlainReplies, r3 \in PlainReplies }

\* Socket.__call__ of family B on a modem that replies as arg says.
BFactoryOn ==
  /\ arg \in ActivationArgs
  /\ BFactoryWith(ActivateContexts(arg.r1, arg.r2, arg.r3))

InitContexts ==
  /\ arg \in ActivationArgs /\ ret = None
  /\ echo = FALSE
  /\ IdleInterface
  /\ family = "B"
  /\ sessions = <<>>
  /\ availableConnIds = PoolIds
  /\ device = {}
  /\ wire = <<>>
  /\ lastCall = NoLast
  /\ NoCallers

NextContexts == BFactoryOn

SpecContexts == InitContexts /\ [][NextContexts]_vars

\* ------------------------------- the parsing of send and recv, as calls

\* How long a payload the modem delivers at most.
MaxPayload == 2

\* The characters of a payload: a letter, and the separators of the replies.
PayloadChars == {"h", ",", ":", "-"}

\* The payloads a modem delivers: short ones of any make, and ones that hold
\* the markers of family A themselves.
RecvPayloads ==
  UNION {[1..n -> PayloadChars] : n \in 0..MaxPayload}
    \cup {<<"C", "O", "N", "N", "E", "C", "T">>, <<"C", "O", "N", "N", "E", "C", "T", "\r", "\n">>, EOFPattern}

\* The outputs of AT+KTCPRCV for a payload: whole, without the CONNECT marker,
\* without the sentinel.
SrcOutput(shape, payload) ==
  CASE shape = "whole" -> <<"C", "O", "N", "N", "E", "C", "T", "\r", "\n">> \o payload \o EOFPattern
    [] shape = "no marker" -> payload \o EOFPattern
    [] shape = "no sentinel" -> <<"C", "O", "N", "N", "E", "C", "T", "\r", "\n">> \o payload

\* Whether an output of AT+KTCPRCV lacks the CONNECT marker or the sentinel.
SrcLacks(output) == ~Contains(output, <<"C", "O", "N", "N", "E", "C", "T">>) \/ ~Contains(output, EOFPattern)

SrcRecvArgs ==
  { [family |-> "A", op |-> "recv", payload |-> p, size |-> 0, shape |-> sh,
     reply |-> Replied(IF ok THEN ResultOk ELSE ErrorResult, SrcOutput(sh, p))] :
       p \in RecvPayloads, sh \in {"whole", "no marker", "no sentinel"}, ok \in BOOLEAN }

\* The outputs of AT#XTCPRECV for a declared size and a payload: whole, without
\* the colon, without the comma, with a size that is no number.
NanoOutput(shape, size, payload) ==
  CASE shape = "whole" -> <<"#", "X", "T", "C", "P", "R", "E", "C", "V", ":", " ">> \o NatText(size) \o <<",">> \o payload
    [] shape = "no colon" -> <<"#", "X", "T", "C", "P", "R", "E", "C", "V", " ">> \o NatText(size) \o <<",">> \o payload
    [] shape = "no comma" -> <<"#", "X", "T", "C", "P", "R", "E", "C", "V", ":", " ">> \o NatText(size)
    [] shape = "no number" -> <<"#", "X", "T", "C", "P", "R", "E", "C", "V", ":", " ", "x", ",">> \o payload

NanoRecvArgs ==
  { [family |-> "C", op |-> "recv", payload |-> p, size |-> n, shape |-> sh,
     reply |-> Replied(IF ok THEN ResultOk ELSE ErrorResult, NanoOutput(sh, n, p))] :
       p \in RecvPayloads \ {<<"C", "O", "N", "N", "E", "C", "T">>, <<"C", "O", "N", "N", "E", "C", "T", "\r", "\n">>, EOFPattern}, n \in 0..(MaxPayload + 1),
       sh \in {"whole", "no colon", "no comma", "no number"}, ok \in BOOLEAN }

\* The last lines of the outputs of AT#XTCPSEND for a count of bytes sent:
\* whole, without the colon, with a count that is no number, and no line.
NanoSendOutput(shape, size) ==
  CASE shape = "whole" -> <<"#", "X", "T", "C", "P", "S", "E", "N", "D", ":", " ">> \o NatText(size)
    [] shape = "no colon" -> <<"#", "X", "T", "C", "P", "S", "E", "N", "D", " ">> \o NatText(size)
    [] shape = "no number" -> <<"#", "X", "T", "C", "P", "S", "E", "N", "D", ":", " ", "x">>
    [] shape = "no line" -> <<>>

NanoSendArgs ==
  { [family |-> "C", op |-> "send", payload |-> <<>>, size |-> n, shape |-> sh,
     reply |-> Replied(IF ok THEN ResultOk ELSE ErrorResult, NanoSendOutput(sh, n))] :
       n \in 0..(MaxPayload + 1),
       sh \in {"whole", "no colon", "no number", "no line"}, ok \in BOOLEAN }

\* Instance.send of family C on the response of one AT#XTCPSEND.
NanoSendCall ==
  /\ arg.family = "C" /\ arg.op = "send"
  /\ ret = None
  /\ ret' = Some(NanoSend(arg.reply))
  /\ UNCHANGED <<arg, ifaceVars, sockVars, callerVars>>

\* Instance.recv of family A on the response of one AT+KTCPRCV.
SrcRecvCall ==
  /\ arg.family = "A" /\ arg.op = "recv"
  /\ ret = None
  /\ ret' = Some(SrcRecv(arg.reply))
  /\ UNCHANGED <<arg, ifaceVars, sockVars, callerVars>>

\* Instance.recv of family C on the response of one AT#XTCPRECV.
NanoRecvCall ==
  /\ arg.family = "C" /\ arg.op = "recv"
  /\ ret = None
  /\ ret' = Some(NanoRecv(arg.reply))
  /\ UNCHANGED <<arg, ifaceVars, sockVars, callerVars>>

InitRecv ==
  /\ arg \in SrcRecvArgs \cup NanoRecvArgs \cup NanoSendArgs /\ ret = None
  /\ echo = FALSE
  /\ IdleInterface
  /\ NoSockets
  /\ NoCallers

NextRecv == SrcRecvCall \/ NanoRecvCall \/ NanoSendCall

SpecRecv == InitRecv /\ [][NextRecv]_vars

\* ------------------------------------------------- the socket families

\* The sessions that hold an id: made by the factory and not closed since.
Live == {s \in DOMAIN sessions : sessions[s].id # None}

\* C11: at every point, no two live sessions of one modem hold the same id,
\* whatever factory calls (binding to a given id included), connects and
\* closes were made.
C11_LiveIdsDistinct ==
  \A s \in Live, t \in Live : s # t => sessions[s].id # sessions[t].id

\* The step is a call of op on a session.
Calls(op) == lastCall'.op = op /\ lastCall'.session \in DOMAIN sessions

\* The step changes nothing of the sessions, the pool and the modem's sockets.
NothingChanged ==
  /\ [s \in DOMAIN sessions |-> [id |-> sessions'[s].id, isOpen |-> sessions'[s].isOpen]]
       = [s \in DOMAIN sessions |-> [id |-> sessions[s].id, isOpen |-> sessions[s].isOpen]]
  /\ Len(sessions') = Len(sessions)
  /\ availableConnIds' = availableConnIds
  /\ device' = device

\* C12: once close() has returned normally on a session, every further close()
\* on it writes nothing to the transport, changes no state and raises nothing.
C12_CloseAgainNoOp ==
  [][(Calls("close") /\ sessions[lastCall'.session].closed)
       => (wire' = <<>> /\ lastCall'.kind = "returned" /\ NothingChanged)]_vars

\* C13: close() on a session that was created but never successfully
\* connected sends no command to the modem and raises no error.
C13_CloseUnconnectedSilent ==
  [][(Calls("close") /\ ~sessions[lastCall'.session].connected)
       => (wire' = <<>> /\ lastCall'.kind = "returned")]_vars

\* The exceptions that tell the caller of a wrong use rather than of the
\* wire or the protocol.
UsageErrors == {"OSError", "ValueError"}

\* C14: send() or recv() on a session on which connect() has not succeeded
\* raises a usage error before any byte is written to the transport.
C14_UnconnectedUseRefused ==
  [][((Calls("send") \/ Calls("recv")) /\ ~sessions[lastCall'.session].connected)
       => (lastCall'.kind \in UsageErrors /\ wire' = <<>>)]_vars

\* C15: if connect() fails, the session's id and open flag are exactly what
\* they were before the call.
C15_FailedConnectKeepsSession ==
  [][(Calls("connect") /\ lastCall'.kind # "returned")
       => /\ sessions'[lastCall'.session].id = sessions[lastCall'.session].id
          /\ sessions'[lastCall'.session].isOpen = sessions[lastCall'.session].isOpen]_vars

\* The step is a call of the factory of family B with every id of the pool
\* taken.
ExhaustedFactoryCall ==
  family = "B" /\ lastCall'.op = "factory" /\ availableConnIds = <<>>

\* The exceptions Socket._activateContexts lets through.
ActivationErrors == {"CommError", "AtError", "OSError", "IndexError", "ValueError"}

\* C16, as stated: with every id of the pool held by a live session, a
\* further factory call returns None without raising and leaves the pool and
\* every session unchanged.
C16_ExhaustedReturnsNone ==
  [][ExhaustedFactoryCall
       => /\ lastCall'.kind = "returned" /\ lastCall'.value = None
          /\ sessions' = sessions /\ availableConnIds' = availableConnIds]_vars

\* C16: with every id of the pool held by a live session, a further factory
\* call returns None, or raises what the activation of the contexts raises;
\* either way it returns no session and leaves the pool and every session
\* unchanged.
C16_ExhaustedNoneOrActivationError ==
  [][ExhaustedFactoryCall
       => /\ \/ lastCall'.kind = "returned" /\ lastCall'.value = None
             \/ lastCall'.kind \in ActivationErrors
          /\ lastCall'.session = 0
          /\ sessions' = sessions /\ availableConnIds' = availableConnIds]_vars

\* The factory has returned None with the pool empty and ten sessions live.
C16_Witness ==
  /\ family = "B" /\ availableConnIds = <<>>
  /\ Cardinality(Live) = Len(PoolIds)
  /\ lastCall.op = "factory" /\ lastCall.kind = "returned" /\ lastCall.value = None

\* C17: with the pool exhausted, a close() that returns normally on a session
\* holding an id puts that id, once, into the pool; a factory call that then
\* returns does so with a session holding that same id and empties the pool;
\* and a factory call on the empty pool obtains no session.
C17_ClosedIdReusedOnce ==
  [][/\ (family = "B" /\ Calls("close") /\ availableConnIds = <<>>
           /\ lastCall'.kind = "returned" /\ sessions[lastCall'.session].id # None)
          => availableConnIds' = sessions[lastCall'.session].id
     /\ (family = "B" /\ lastCall'.op = "factory" /\ Len(availableConnIds) = 1
           /\ lastCall'.kind = "returned")
          => /\ lastCall'.value = Some(availableConnIds[1])
             /\ Len(sessions') = Len(sessions) + 1
             /\ sessions'[Len(sessions')].id = Some(availableConnIds[1])
             /\ availableConnIds' = <<>>
     /\ ExhaustedFactoryCall
          => (lastCall'.session = 0 /\ sessions' = sessions /\ availableConnIds' = <<>>)]_vars

\* The pool was exhausted, the first session was closed, and the factory has
\* returned an eleventh session that holds the id the first one held.
C17_Witness ==
  /\ family = "B" /\ availableConnIds = <<>>
  /\ Len(sessions) = Len(PoolIds) + 1
  /\ sessions[1].closed /\ sessions[1].id = None
  /\ sessions[Len(sessions)].id = Some(PoolIds[Len(PoolIds)])
  /\ lastCall.op = "factory" /\ lastCall.kind = "returned"
  /\ lastCall.value = Some(PoolIds[Len(PoolIds)])

\* C18: a malformed reply (wrong field count, a non-integer where an integer
\* is required, a missing marker) makes send raise AtError; it is never
\* turned into a default value such as 0 bytes sent.
C18_MalformedRaisesAtError ==
  (arg.op = "send" /\ ret # None /\ ReplyOk(arg.reply) /\ arg.shape # "whole")
    => ret[1].kind = "AtError"

\* C19: family A recv, on a successful reply: when the output is CONNECT CR LF,
\* the payload and the sentinel --EOF--Pattern--, it returns exactly the
\* payload; when the output lacks the CONNECT marker or the sentinel it raises
\* AtError.
C19_SrcRecvPayload ==
  (arg.family = "A" /\ arg.op = "recv" /\ ret # None /\ ReplyOk(arg.reply))
    => /\ arg.shape = "whole" => ret[1] = Returned(arg.payload)
       /\ SrcLacks(arg.reply.output) => ret[1].kind = "AtError"

\* recv has returned a payload that itself holds the sentinel.
C19_Witness ==
  /\ arg.family = "A" /\ arg.op = "recv" /\ arg.shape = "whole" /\ ReplyOk(arg.reply)
  /\ arg.payload = EOFPattern
  /\ ret = Some(Returned(EOFPattern))

\* C20: family C recv never raises; it returns the payload of a
\* <size>,<payload> reply when the payload is as long as the declared size,
\* and an empty byte array for a device error result, a missing field, a size
\* that is no integer, or a length that differs from the declared size.
C20_NanoRecvSizeChecked ==
  (arg.family = "C" /\ arg.op = "recv" /\ ret # None)
    => /\ ret[1].kind = "returned"
       /\ IF ReplyOk(arg.reply) /\ arg.shape = "whole" /\ arg.size = Len(arg.payload)
          THEN ret[1].value = arg.payload
          ELSE ret[1].value = <<>>

\* recv has returned a payload of the declared size that holds a comma.
C20_Witness ==
  /\ arg.family = "C" /\ arg.op = "recv" /\ arg.shape = "whole" /\ ReplyOk(arg.reply)
  /\ arg.size = Len(arg.payload)
  /\ \E i \in 1..Len(arg.payload) : arg.payload[i] = ","
  /\ ret = Some(Returned(arg.payload))

\* ------------------------------------------------- Skywire Nano: DFU

\* How many lines the device sends while an update is being waited for.
MaxHeard == 4

\* Dfu.Type
DfuTypes == 0..4

Key == 3

Partition == 4

\* Urcs.Dfu.Type
Failure == 0

DfuDone == 1

Progress == 2

Applying == 3

\* Dfu.needsReboot taken to hold of every image type.
NeedsRebootAlways(type) == TRUE

\* Dfu.needsReboot
NeedsReboot(type) == IF type = Key \/ type = Partition THEN FALSE ELSE TRUE

\* The lines the device sends while an update is applied: the four
\* notifications, the boot marker, a notification of no known type, one
\* without the value it needs, and a line that is no DFU notification.
DfuLines ==
  { <<"D", "F", "U", ":", " ", "0", ",", "4">>, <<"D", "F", "U", ":", " ", "1">>, <<"D", "F", "U", ":", " ", "2", ",", "5", "0">>, <<"D", "F", "U", ":", " ", "3">>, <<"R", "E", "A", "D", "Y">>,
    <<"D", "F", "U", ":", " ", "9">>, <<"D", "F", "U", ":", " ", "0">>, <<"+", "C", "E", "R", "E", "G", ":", " ", "1">> }

\* The pattern App._waitForDfuFinish gives getUrcs.
DfuPattern == <<"D", "F", "U", ":", " ">>

\* re.match(r".*READY", line) is not None
BootMatch(line) == Contains(line, <<"R", "E", "A", "D", "Y">>)

\* Urcs.Dfu.makeFromString: the notification, or the AtError it raises.
DfuMakeFromString(string) ==
  LET fields == Split(string, ":")
      parts == Split(Strip(fields[2]), ",")
      bad == [ok |-> FALSE, type |-> 0, value |-> None]
  IN  IF Len(fields) # 2 THEN bad
      ELSE IF Strip(fields[1]) # <<"D", "F", "U">> THEN bad
      ELSE IF ~IsIntLiteral(parts[1]) THEN bad
      ELSE IF Len(parts) > 1 /\ ~IsIntLiteral(parts[2]) THEN bad
      ELSE LET type == IntValue(parts[1])
               value == IF Len(parts) > 1 THEN Some(IntValue(parts[2])) ELSE None
           IN  IF type \in {Failure, Progress} /\ value = None THEN bad
               ELSE [ok |-> TRUE, type |-> type, value |-> value]

\* OSError(f"DFU failed ({urc})")
DfuFailed(urc) == Ended("OSError", <<"D", "F", "U", " ", "f", "a", "i", "l", "e", "d", " ", "(">> \o urc \o <<")">>)

\* A reading of the end of _waitForDfuFinish that asks for no Done.
FinalOutcomeLenient(count) == Returned(None)

\* _waitForDfuFinish once the notifications after boot have stopped.
FinalOutcome(count) ==
  IF count < 1 THEN Ended("AtError", <<"F", "a", "i", "l", "e", "d", " ", "t", "o", " ", "g", "e", "t", " ", "f", "i", "n", "a", "l", " ", "D", "F", "U", " ", "U", "R", "C">>)
  ELSE Returned(None)

\* The call d, ended.
DfuEnds(d, how) == [d EXCEPT !.pc = "ended", !.outcome = how]

\* The window of each wait of _waitForDfuFinish, in seconds.
FirstTimeout == 30

BootTimeout == 120

FinalTimeout == 2

\* The timeout given to the getUrcs or waitForBoot of a phase.
Window(phase) ==
  IF phase = "first" THEN FirstTimeout
  ELSE IF phase = "boot" THEN BootTimeout ELSE FinalTimeout

\* What became of the trigger: the channel used and whether it took the
\* request, or "none" when the modem object has no channel.
Trigger(at, tool, answered) ==
  IF at THEN (IF answered THEN "at" ELSE "at refused")
  ELSE IF tool THEN (IF answered THEN "tool" ELSE "tool refused")
  ELSE "none"

\* A reading of _startDfu that does not look at what the trigger answered.
StartDfuUnchecked(at, tool, answered) == at \/ tool

\* App._startDfu: whether it returns; it raises AtError when the channel
\* used refused or when there is no channel.
StartDfu(at, tool, answered) ==
  IF at THEN answered
  ELSE IF tool THEN answered
  ELSE FALSE

\* App.upload, to its return or to the first wait of _waitForDfuFinish.
DfuUpload ==
  /\ dfu.pc = "idle"
  /\ \E type \in DfuTypes, arg0 \in {None, Some(TRUE), Some(FALSE)},
        kernelLog \in BOOLEAN, at \in BOOLEAN, tool \in BOOLEAN,
        answered \in BOOLEAN, transferred \in BOOLEAN :
       LET reboot == IF arg0 = None THEN TRUE ELSE arg0[1]
           started == kernelLog /\ StartDfu(at, tool, answered)
           how == IF ~kernelLog THEN Ended("OSError", <<"n", "o", " ", "k", "e", "r", "n", "e", "l", " ", "l", "o", "g">>)
                  ELSE IF ~started THEN Ended("AtError", <<"s", "t", "a", "r", "t">>)
                  ELSE IF ~transferred THEN Ended("OSError", <<"t", "r", "a", "n", "s", "f", "e", "r">>)
                  ELSE IF ~NeedsReboot(type) \/ ~reboot THEN Returned(None)
                  ELSE IF ~at THEN Returned(None)
                  ELSE NoOutcome
       IN  dfu' = [dfu EXCEPT !.op = "upload", !.type = type, !.reboot = reboot,
                              !.at = at,
                              !.trigger = IF kernelLog THEN Trigger(at, tool, answered)
                                          ELSE "none",
                              !.transfer = IF ~started THEN "none"
                                           ELSE IF transferred THEN "done"
                                           ELSE "failed",
                              !.outcome = how,
                              !.pc = IF how = NoOutcome THEN "first" ELSE "ended"]
  /\ UNCHANGED <<parseVars, ifaceVars, sockVars, reader, conc, sim>>

\* App.fota, to its return or to the first wait of _waitForDfuFinish.
DfuFota ==
  /\ dfu.pc = "idle"
  /\ \E arg0 \in {None, Some(TRUE), Some(FALSE)}, started \in BOOLEAN :
       LET reboot == IF arg0 = None THEN TRUE ELSE arg0[1]
       IN  dfu' = [dfu EXCEPT !.op = "fota", !.reboot = reboot, !.at = TRUE,
                              !.trigger = Trigger(TRUE, FALSE, started),
                              !.outcome = IF started THEN NoOutcome
                                          ELSE Ended("AtError", <<"s", "t", "a", "r", "t">>),
                              !.pc = IF started THEN "first" ELSE "ended"]
  /\ UNCHANGED <<parseVars, ifaceVars, sockVars, reader, conc, sim>>

\* A reading of the first loop in which Applying always leads to the wait
\* for the boot marker.
FirstLoopAlwaysBoots(d, urc) ==
  LET n == DfuMakeFromString(urc)
  IN  IF ~n.ok THEN DfuEnds(d, Ended("AtError", urc))
      ELSE IF n.type = Failure THEN DfuEnds(d, DfuFailed(urc))
      ELSE IF n.type = DfuDone THEN DfuEnds(d, Returned(None))
      ELSE IF n.type = Applying THEN [d EXCEPT !.pc = "boot"]
      ELSE d

\* _waitForDfuFinish, first loop: the call d after a notification read
\* before the reboot.
FirstLoop(d, urc) ==
  LET n == DfuMakeFromString(urc)
  IN  IF ~n.ok THEN DfuEnds(d, Ended("AtError", urc))
      ELSE IF n.type = Failure THEN DfuEnds(d, DfuFailed(urc))
      ELSE IF n.type = DfuDone THEN DfuEnds(d, Returned(None))
      ELSE IF n.type = Applying
      THEN IF ~d.reboot THEN DfuEnds(d, Returned(None))
           ELSE [d EXCEPT !.pc = "boot"]
      ELSE d

\* _waitForDfuFinish, second loop: the call d after a notification read
\* after the reboot.
FinalLoop(d, urc) ==
  LET n == DfuMakeFromString(urc)
  IN  IF ~n.ok THEN DfuEnds(d, Ended("AtError", urc))
      ELSE IF n.type = DfuDone THEN [d EXCEPT !.count = d.count + 1]
      ELSE IF n.type = Failure THEN DfuEnds(d, DfuFailed(urc))
      ELSE DfuEnds(d, Ended("AtError", urc))

\* SkywireNano.waitForBoot: the call d after a line read while the device
\* reboots.
WaitForBoot(d, line) == IF BootMatch(line) THEN [d EXCEPT !.pc = "final"] ELSE d

\* The lines of the device that matter to how long the waits last.
WindowLines == { <<"D", "F", "U", ":", " ", "2", ",", "5", "0">>, <<"D", "F", "U", ":", " ", "1">>, <<"D", "F", "U", ":", " ", "3">>, <<"R", "E", "A", "D", "Y">> }

\* How long after the last line the device sends the next one: at once, or
\* (when paced) a second before the window of the wait would close.
Pauses(phase, paced) == IF paced THEN {0, Window(phase) - 1} ELSE {0}

\* The device sends one of lines while _waitForDfuFinish waits: getUrc drops
\* it when it does not match the pattern waited for, its deadline running
\* on, and returns it otherwise; getUrcs then calls getUrc anew.
DfuHearPaced(lines, paced) ==
  /\ dfu.pc \in {"first", "boot", "final"}
  /\ Len(dfu.heard) < MaxHeard
  /\ \E line \in lines, pause \in Pauses(dfu.pc, paced) :
       /\ dfu.inCall + pause <= Window(dfu.pc)
       /\ LET now == [dfu EXCEPT !.heard = Append(dfu.heard, [line |-> line, phase |-> dfu.pc]),
                                 !.waited = dfu.waited + pause,
                                 !.inCall = dfu.inCall + pause]
              wanted == [now EXCEPT !.inCall = 0]
              then == IF dfu.pc = "boot" THEN WaitForBoot(now, line)
                      ELSE IF ~ReMatch(DfuPattern, line) THEN now
                      ELSE IF dfu.pc = "first" THEN FirstLoop(wanted, line)
                      ELSE FinalLoop(wanted, line)
          IN  dfu' = IF then.pc \in {dfu.pc, "ended"} THEN then
                     ELSE [then EXCEPT !.waited = 0, !.inCall = 0]
  /\ UNCHANGED <<parseVars, ifaceVars, sockVars, reader, conc, sim>>

\* The device sends a line as soon as it is waited for.
DfuHear == DfuHearPaced(DfuLines, FALSE)

\* The device sends a line at its own pace.
DfuHearLate == DfuHearPaced(WindowLines, TRUE)

\* The device stays silent until the wait in progress times out: the first
\* loop ends and the boot is waited for, waitForBoot raises, or the second
\* loop ends.
DfuSilence ==
  /\ dfu.pc \in {"first", "boot", "final"}
  /\ LET now == [dfu EXCEPT !.waited = dfu.waited + (Window(dfu.pc) - dfu.inCall),
                            !.inCall = 0]
     IN  dfu' = IF dfu.pc = "first" THEN [now EXCEPT !.pc = "boot", !.waited = 0]
               ELSE IF dfu.pc = "boot"
               THEN DfuEnds(now, Ended("AtError", <<"F", "a", "i", "l", "e", "d", " ", "t", "o", " ", "d", "e", "t", "e", "c", "t", " ", "b", "o", "o", "t">>))
               ELSE DfuEnds(now, FinalOutcome(dfu.count))
  /\ UNCHANGED <<parseVars, ifaceVars, sockVars, reader, conc, sim>>

InitDfu ==
  /\ arg = None /\ ret = None
  /\ echo = FALSE
  /\ IdleInterface
  /\ NoSockets
  /\ NoCallers

NextDfu == DfuUpload \/ DfuFota \/ DfuHear \/ DfuSilence

SpecDfu == InitDfu /\ [][NextDfu]_vars

\* The update calls with a device that sends its lines at its own pace.
NextWindow == DfuUpload \/ DfuFota \/ DfuHearLate \/ DfuSilence

SpecWindow == InitDfu /\ [][NextWindow]_vars

\* ------------------------------------------------------- Dfu.format

\* Dfu.HeaderSize
HeaderSize == 64

\* A 32-bit unsigned word is written as its four base-256 digits, the most
\* significant first.
Word(n) ==
  << (n \div 16777216) % 256, (n \div 65536) % 256, (n \div 256) % 256, n % 256 >>

\* Dfu.Magic, 0xecce1347
Magic == <<236, 206, 19, 71>>

\* The longest payload formatted, in bytes.
MaxFormatLen == 5

\* The bytes payloads are made of: the four bytes of the magic, and 0.
FormatBytes == {0, 19, 71, 206, 236}

\* The byte orders a host can have; struct's "I" uses the host's.
ByteOrders == {"little", "big"}

\* s reversed.
Reverse(s) == [i \in 1..Len(s) |-> s[Len(s) + 1 - i]]

\* struct.pack("I", w): the bytes of the word w in the host's order.
Pack32(w, order) == IF order = "little" THEN Reverse(w) ELSE w

\* struct.unpack("I", b)[0]: the word four bytes b stand for.
Unpack32(b, order) == IF order = "little" THEN Reverse(b) ELSE b

\* n zero words.
RECURSIVE ZeroWords(_, _)
ZeroWords(n, order) == IF n = 0 THEN <<>> ELSE Pack32(Word(0), order) \o ZeroWords(n - 1, order)

\* A reading of Dfu.format that never takes a payload for formatted.
AlreadyFormattedNever(payload, order) == FALSE

\* Dfu.format: whether the payload is taken for formatted already.
AlreadyFormatted(payload, order) ==
  Len(payload) > 3 /\ Unpack32(Take(payload, 4), order) = Magic

\* A reading of Dfu.format that does not pad the header.
DfuHeaderBare(type, length, order) ==
  Pack32(Magic, order) \o Pack32(Word(type), order) \o Pack32(Word(length), order)

\* Dfu.format: the header, three words padded with zero words to HeaderSize.
DfuHeader(type, length, order) ==
  LET headerData == Pack32(Magic, order) \o Pack32(Word(type), order) \o Pack32(Word(length), order)
      padWords == (HeaderSize - Len(headerData)) \div 4
  IN  headerData \o ZeroWords(padWords, order)

\* Dfu.format
DfuFormat(payload, type, order) ==
  IF AlreadyFormatted(payload, order) THEN payload
  ELSE DfuHeader(type, Len(payload), order) \o payload

\* Byte strings of up to n bytes.
RECURSIVE ByteStrings(_)
ByteStrings(n) ==
  IF n = 0 THEN {<<>>}
  ELSE LET shorter == ByteStrings(n - 1)
       IN  shorter \cup {<<b>> \o s : b \in FormatBytes, s \in {t \in shorter : Len(t) = n - 1}}

\* The calls of Dfu.format made: payloads of up to n bytes.
FormatArgs(n) ==
  {[kind |-> "format", data |-> d, type |-> t, order |-> o] :
     d \in ByteStrings(n), t \in DfuTypes, o \in ByteOrders}

\* Dfu.format(arg.data, arg.type)
FormatCall ==
  /\ arg.kind = "format"
  /\ ret = None
  /\ ret' = Some(DfuFormat(arg.data, arg.type, arg.order))
  /\ UNCHANGED <<arg, ifaceVars, sockVars, callerVars>>

\* getCode of a family's class.
FamilyGetCode(variant, name) ==
  IF variant = Cme THEN CmeGetCode(name) ELSE CmsGetCode(name)

\* getName of a family's class.
FamilyGetName(variant, code) ==
  IF variant = Cme THEN CmeGetName(code) ELSE CmsGetName(code)

\* CmeError.getCode(arg.name) or CmsError.getCode(arg.name)
GetCodeCall ==
  /\ arg.kind = "status"
  /\ ret = None
  /\ ret' = Some([op |-> "getCode",
                  value |-> FamilyGetCode(arg.variant, arg.name)])
  /\ UNCHANGED <<arg, ifaceVars, sockVars, callerVars>>

\* CmeError.getName(arg.code) or CmsError.getName(arg.code)
GetNameCall ==
  /\ arg.kind = "status"
  /\ ret = None
  /\ ret' = Some([op |-> "getName",
                  value |-> FamilyGetName(arg.variant, arg.code)])
  /\ UNCHANGED <<arg, ifaceVars, sockVars, callerVars>>

\* The lines Urcs.Dfu.makeFromString is given: a prefix, a type and
\* perhaps a value, well formed or not; and lines of other shapes.
DfuStrings ==
  { p \o <<":", " ">> \o t \o v :
      p \in {<<"D", "F", "U">>, <<"+", "C", "E", "R", "E", "G">>},
      t \in {<<"0">>, <<"1">>, <<"2">>, <<"3">>, <<"4">>, <<"x">>},
      v \in {<<>>, <<",", "4">>, <<",", "x">>} }
  \cup { <<"R", "E", "A", "D", "Y">>, <<"D", "F", "U", ":", " ", "1", ":", " ", "2">> }

DfuArgs == {[kind |-> "dfu", string |-> s] : s \in DfuStrings}

\* Urcs.Dfu.makeFromString(arg.string)
MakeFromStringCall ==
  /\ arg.kind = "dfu"
  /\ ret = None
  /\ ret' = Some(DfuMakeFromString(arg.string))
  /\ UNCHANGED <<arg, ifaceVars, sockVars, callerVars>>

\* A payload with an image type and a byte order, an entry of one of the
\* two error tables, or a line for the DFU notification parser.
InitCodec ==
  /\ arg \in FormatArgs(MaxFormatLen) \cup StatusArgs \cup DfuArgs /\ ret = None
  /\ echo = FALSE
  /\ IdleInterface
  /\ NoSockets
  /\ NoCallers

NextCodec == FormatCall \/ GetCodeCall \/ GetNameCall \/ MakeFromStringCall

SpecCodec == InitCodec /\ [][NextCodec]_vars

\* ---------------------------------------------- Interface._getLines alone

\* How many read attempts of a line reader are counted; more count as this.
MaxReads == 3

\* What the device sends to a line reader: the beginning of a line, the rest
\* of it, and a whole line.
LineChunks == { <<"+", "C", "R">>, <<"E", "G", ":", " ", "1">> \o NewLine, T_OK \o NewLine }

\* How long the caller keeps a line before it asks for the next one.
AwayTimes == {0, 1}

\* A reading of _getLines in which the clock starts again with each line.
ResumeSinceRestarted(since, away, timeout) == 0

\* _getLines: now - startTime when the caller re-enters the generator, away
\* after the line was yielded; startTime is set on the first pass only.
ResumeSince(since, away, timeout) == Later(since, away, timeout)

\* A reading of _getLines that hands out whatever the buffer holds.
YieldReadyAny(buf) == buf # <<>>

\* _getLines: whether the buffer is yielded, that is, holds a line feed.
YieldReady(buf) == HasLine(buf)

\* The device sends a chunk to the port a line reader reads.
DeviceSendPiece ==
  /\ sent < MaxDeviceSends
  /\ \E chunk \in LineChunks :
       /\ rx' = rx \o chunk
       /\ reader' = [reader EXCEPT !.arrived = @ \/ HasLine(chunk)]
  /\ sent' = sent + 1
  /\ UNCHANGED <<parseVars, sockVars, dfu, conc, sim, echo, tx, buffer, pc, call, elapsed,
                 data, outcome, gen, prompt, taken, delivered, pre, seen, dropped, ncalls>>

\* A caller makes a line reader, _getLines(timeout), and asks for its first
\* line: the clock starts.
ReaderStart ==
  /\ reader.pc = "idle"
  /\ \E timeout \in Timeouts :
       reader' = [reader EXCEPT !.pc = "reading", !.timeout = timeout, !.made = 1]
  /\ UNCHANGED <<parseVars, ifaceVars, sockVars, dfu, conc, sim>>

\* One pass of the loop of _getLines: the generator ends when the deadline
\* has passed; otherwise it reads, and yields when the buffer holds a line.
ReaderPass ==
  /\ reader.pc = "reading"
  /\ IF GetLinesExpired(reader.since, reader.timeout)
     THEN /\ reader' = [reader EXCEPT !.pc = "ended"]
          /\ UNCHANGED <<rx, buffer>>
     ELSE \E d \in ReadDurations(reader.timeout, rx) :
            LET got == ReadLine(rx)
                buf == buffer \o got
                now == [reader EXCEPT !.read = @ \o got,
                                      !.reads = Min(@ + 1, MaxReads),
                                      !.readAt = reader.total,
                                      !.since = Later(@, d, reader.timeout),
                                      !.total = Later(@, d, reader.timeout)]
            IN  /\ rx' = Drop(rx, Len(got))
                /\ IF YieldReady(buf)
                   THEN /\ buffer' = BufferAfterYield(buf)
                        /\ reader' = [now EXCEPT !.pc = "yielded", !.yielded = @ + 1,
                                                 !.lines = Append(@, buf)]
                   ELSE /\ buffer' = buf
                        /\ reader' = now
  /\ UNCHANGED <<parseVars, sockVars, dfu, conc, sim, echo, tx, pc, call, elapsed, data,
                 outcome, gen, prompt, taken, delivered, pre, seen, dropped, sent, ncalls>>

\* The caller asks the line reader for the next line.
ReaderResume ==
  /\ reader.pc = "yielded"
  /\ \E away \in AwayTimes :
       reader' = [reader EXCEPT !.pc = "reading",
                                !.since = ResumeSince(@, away, reader.timeout),
                                !.total = Later(@, away, reader.timeout)]
  /\ UNCHANGED <<parseVars, ifaceVars, sockVars, dfu, conc, sim>>

InitLines ==
  /\ arg = None /\ ret = None
  /\ echo = FALSE
  /\ IdleInterface
  /\ NoSockets
  /\ NoCallers

NextLines == DeviceSendPiece \/ ReaderStart \/ ReaderPass \/ ReaderResume

SpecLines == InitLines /\ [][NextLines]_vars

\* ------------------------------- one line reader after another

\* How many line readers the callers make, one after the other.
MaxReaders == 2

\* A reading of _getLines that begins with an empty buffer.
BufferAtStartCleared(buf) == <<>>

\* _getLines: Interface._buffer when a new line reader begins; the generator
\* leaves it as the last one left it.
BufferAtStart(buf) == buf

\* A later sendCommand or getUrc makes a new line reader, the last one
\* having ended at its deadline or having been left after a line it
\* yielded: the clock starts afresh.
ReaderAgain ==
  /\ reader.pc \in {"ended", "yielded"}
  /\ reader.made < MaxReaders
  /\ \E timeout \in Timeouts :
       reader' = [reader EXCEPT !.pc = "reading", !.timeout = timeout,
                                !.since = 0, !.total = 0, !.reads = 0,
                                !.readAt = 0, !.made = @ + 1,
                                !.kept = buffer]
  /\ buffer' = BufferAtStart(buffer)
  /\ UNCHANGED <<parseVars, sockVars, dfu, conc, sim, echo, rx, tx, pc, call, elapsed, data,
                 outcome, gen, prompt, taken, delivered, pre, seen, dropped, sent, ncalls>>

NextResidue ==
  DeviceSendPiece \/ ReaderStart \/ ReaderPass \/ ReaderResume \/ ReaderAgain

SpecResidue == InitLines /\ [][NextResidue]_vars

\* ------------------------------- two threads on one Interface

\* How many notifications the device sends while the two threads run.
MaxNotifications == 1

\* The two threads: one sends a command, one waits for a notification.
Threads == {"cmd", "urc"}

\* The command the first thread sends.
ThreadCommand == <<"A", "T", "+", "C", "S", "Q">>

\* What the device sends of its own accord while the two threads run.
Notification == <<"+", "C", "R", "E", "G", ":", " ", "1">> \o NewLine

\* The reply the device gives the command: OK.
Answer == NewLine \o T_OK \o NewLine

\* The patterns the second thread waits with: none, and the notification's.
WaiterPatterns == { None, Some(<<"+", "C", "R", "E", "G">>) }

\* The bytearray objects in use are kept under the numbers 1 to 3: the
\* Interface's buffer, and one that each thread may hold on to. 0 is no
\* object.
Objects == 1..3

\* The objects in use in c: the Interface's buffer and those the threads hold.
InUse(c) == {c.cur, c.cmd.ref, c.cmd.local, c.urc.ref, c.urc.local}

\* c with the objects no longer in use emptied.
Collected(c) ==
  [c EXCEPT !.heap = [o \in Objects |-> IF o \in InUse(c) THEN c.heap[o] ELSE <<>>]]

\* bytearray(): an object not in use in c.
NewObject(c) == CHOOSE o \in Objects : o \notin InUse(c) /\ \A p \in Objects : p < o => p \in InUse(c)

\* The device sends a notification.
DeviceNotify ==
  /\ conc.notified < MaxNotifications
  /\ rx' = rx \o Notification
  /\ conc' = [conc EXCEPT !.notified = @ + 1]
  /\ UNCHANGED <<parseVars, sockVars, dfu, reader, sim, echo, tx, buffer, pc, call, elapsed,
                 data, outcome, gen, prompt, taken, delivered, pre, seen, dropped, sent, ncalls>>

\* The device answers the command it has been sent, once, while the command
\* is waited for.
DeviceAnswer ==
  /\ conc.cmd.phase = "wait" /\ conc.cmd.pc # "ended" /\ ~conc.answered
  /\ rx' = rx \o Answer
  /\ conc' = [conc EXCEPT !.answered = TRUE]
  /\ UNCHANGED <<parseVars, sockVars, dfu, reader, sim, echo, tx, buffer, pc, call, elapsed,
                 data, outcome, gen, prompt, taken, delivered, pre, seen, dropped, sent, ncalls>>

\* The thread t, ended.
ThreadEnds(t, how) == [conc EXCEPT ![t].pc = "ended", ![t].outcome = how]

\* The first thread calls sendCommand: _beginCommand writes the
\* synchronizing AT and makes a line reader with deadline 0.
CmdSendCommand ==
  /\ conc.cmd.pc = "idle"
  /\ \E timeout \in Timeouts, written \in BOOLEAN :
       conc' = IF ~written THEN ThreadEnds("cmd", CommError("write"))
               ELSE [conc EXCEPT !.cmd.pc = "test", !.cmd.phase = "drain",
                                 !.cmd.command = Some(Rstrip(ThreadCommand)),
                                 !.cmd.timeout = 0, !.cmd.waitTimeout = timeout,
                                 !.cmd.elapsed = 0, !.readTimeout = 0]
  /\ UNCHANGED <<parseVars, ifaceVars, sockVars, dfu, reader, sim>>

\* The second thread calls getUrc(pattern, timeout), which makes a line
\* reader.
UrcGetUrc ==
  /\ conc.urc.pc = "idle"
  /\ \E pattern \in WaiterPatterns, timeout \in Timeouts :
       conc' = [conc EXCEPT !.urc.pc = "test", !.urc.phase = "urc",
                            !.urc.pattern = pattern, !.urc.timeout = timeout,
                            !.urc.elapsed = 0, !.readTimeout = timeout]
  /\ UNCHANGED <<parseVars, ifaceVars, sockVars, dfu, reader, sim>>

\* The line reader of thread t has ended: getUrc and _waitForResponse raise;
\* _beginCommand writes the command body, which may fail, and
\* _waitForResponse makes the next line reader.
ReaderEnded(t) ==
  IF conc[t].phase = "urc" THEN conc' = ThreadEnds(t, CommError("urc"))
  ELSE IF conc[t].phase = "wait" THEN conc' = ThreadEnds(t, CommError("timeout"))
  ELSE \E written \in BOOLEAN :
         conc' = IF ~written THEN ThreadEnds(t, CommError("write"))
                 ELSE [conc EXCEPT ![t].phase = "wait", ![t].elapsed = 0,
                                   ![t].timeout = conc[t].waitTimeout,
                                   !.readTimeout = conc[t].waitTimeout]

\* _getLines in thread t, the deadline test: past it the reader ends;
\* otherwise the thread takes the Interface's buffer object, to extend it,
\* and calls readline().
ThreadTest ==
  /\ \E t \in Threads :
       /\ conc[t].pc = "test"
       /\ IF GetLinesExpired(conc[t].elapsed, conc[t].timeout)
          THEN ReaderEnded(t)
          ELSE conc' = [conc EXCEPT ![t].pc = "read", ![t].ref = conc.cur]
  /\ UNCHANGED <<parseVars, ifaceVars, sockVars, dfu, reader, sim>>

\* _getLines in thread t: readline() returns, with the port's timeout as the
\* thread that set it last left it, and what it returns is added to the
\* buffer object the thread took before the call.
ThreadRead ==
  /\ \E t \in Threads :
       /\ conc[t].pc = "read"
       /\ \E d \in ReadDurations(conc.readTimeout, rx) :
            LET got == ReadLine(rx)
            IN  /\ rx' = Drop(rx, Len(got))
                /\ conc' = Collected([conc EXCEPT ![t].pc = "find", ![t].ref = 0,
                                        ![t].elapsed = Later(@, d, conc[t].timeout),
                                        !.heap[conc[t].ref] = @ \o got])
  /\ UNCHANGED <<parseVars, sockVars, dfu, reader, sim, echo, tx, buffer, pc, call, elapsed,
                 data, outcome, gen, prompt, taken, delivered, pre, seen, dropped, sent, ncalls>>

\* _getLines in thread t: the Interface's buffer is searched for a line
\* feed; with one, the thread keeps the buffer object to yield it.
ThreadFind ==
  /\ \E t \in Threads :
       /\ conc[t].pc = "find"
       /\ conc' = IF HasLine(conc.heap[conc.cur])
                  THEN [conc EXCEPT ![t].pc = "yield", ![t].local = conc.cur]
                  ELSE [conc EXCEPT ![t].pc = "test"]
  /\ UNCHANGED <<parseVars, ifaceVars, sockVars, dfu, reader, sim>>

\* Whether a text holds the line OK.
HasStatusLine(text) == Contains(text, T_OK \o NewLine)

\* A reading of _waitForResponse that takes any line for the end of the reply.
WaitResponseAny(text, command) == Some(Response(ResultOk, command, text))

\* _waitForResponse: the response the text read so far makes, if any.
WaitResponse(text, command) == ResponseMakeFromString(text, command)

\* What the caller in thread t does with a line: _beginCommand drops it,
\* _waitForResponse adds it to its text and returns when that is a response,
\* getUrc returns it unless a pattern was given and does not match.
Consumed(c, t, line) ==
  IF c[t].phase = "drain" THEN c
  ELSE IF c[t].phase = "wait"
  THEN LET text == c[t].data \o line
           response == WaitResponse(text, c[t].command)
       IN  IF response # None
           THEN [c EXCEPT ![t].data = text, ![t].pc = "ended",
                          ![t].outcome = [kind |-> "response", value |-> response[1]]]
           ELSE [c EXCEPT ![t].data = text]
  ELSE IF UrcWanted(c[t].pattern, line)
  THEN [c EXCEPT ![t].pc = "ended", ![t].outcome = [kind |-> "urc", value |-> Rstrip(line)]]
  ELSE c

\* _getLines in thread t: the Interface gets a new, empty buffer and the
\* text of the object the thread kept is yielded to its caller.
ThreadYield ==
  /\ \E t \in Threads :
       /\ conc[t].pc = "yield"
       /\ LET line == conc.heap[conc[t].local]
              now == [conc EXCEPT !.cur = NewObject(conc),
                                  ![t].pc = "test", ![t].local = 0,
                                  ![t].took = @ + CountLines(line),
                                  ![t].status = @ \/ HasStatusLine(line)]
          IN  conc' = Collected(Consumed(now, t, line))
  /\ UNCHANGED <<parseVars, ifaceVars, sockVars, dfu, reader, sim>>

InitConc ==
  /\ arg = None /\ ret = None
  /\ echo = FALSE
  /\ IdleInterface
  /\ NoSockets
  /\ NoCallers

\* A thread that sends a command and a thread that waits for a notification,
\* with nothing to keep them apart.
NextConc ==
  \/ DeviceNotify \/ DeviceAnswer
  \/ CmdSendCommand \/ UrcGetUrc
  \/ ThreadTest \/ ThreadRead \/ ThreadFind \/ ThreadYield

SpecConc == InitConc /\ [][NextConc]_vars

\* ------------------------------------------- properties of the DFU calls

\* The lines read in a phase of the wait, in order.
HeardIn(phase) ==
  SelectSeq(dfu.heard, LAMBDA h : h.phase = phase)

\* Whether the device sent line while the completion was waited for.
Heard(line) == \E i \in 1..Len(dfu.heard) : dfu.heard[i].line = line

\* The call has returned without raising.
DfuSucceeded == dfu.pc = "ended" /\ dfu.outcome = Returned(None)

\* C21: a wait for completion during which the device sent the Failure
\* notification DFU: 0,4 - before Applying, while the boot marker was
\* awaited, or after the boot - never ends in success.
C21_FailureNeverSuccess == ~(Heard(<<"D", "F", "U", ":", " ", "0", ",", "4">>) /\ DfuSucceeded)

\* The DFU notifications read after the reboot, in order.
FinalNotifications ==
  SelectSeq(dfu.heard, LAMBDA h : h.phase = "final" /\ ReMatch(DfuPattern, h.line))

\* The device announced Applying and then the boot marker, each while it
\* was waited for.
AppliedAndBooted ==
  \E i, j \in 1..Len(dfu.heard) :
    /\ i < j
    /\ dfu.heard[i] = [line |-> <<"D", "F", "U", ":", " ", "3">>, phase |-> "first"]
    /\ dfu.heard[j].phase = "boot" /\ BootMatch(dfu.heard[j].line)

\* C22: once the device has announced Applying and has sent the boot marker,
\* the wait ends in success exactly when the DFU notifications read after
\* the boot hold at least one Done and nothing but Done.
C22_DoneAfterBoot ==
  (AppliedAndBooted /\ dfu.pc = "ended") =>
    (DfuSucceeded <=>
       /\ FinalNotifications # <<>>
       /\ \A k \in 1..Len(FinalNotifications) : FinalNotifications[k].line = <<"D", "F", "U", ":", " ", "1">>)

\* The device sends Applying, the boot marker and Done, and the call returns.
C22_Witness ==
  /\ DfuSucceeded
  /\ [k \in 1..Len(dfu.heard) |-> dfu.heard[k].line] = << <<"D", "F", "U", ":", " ", "3">>, <<"R", "E", "A", "D", "Y">>, <<"D", "F", "U", ":", " ", "1">> >>

\* A step in which upload gets past the transfer: it either returns
\* normally or begins to wait for the completion.
UploadTransferred ==
  /\ dfu.pc = "idle" /\ dfu'.op = "upload"
  /\ dfu'.outcome \in {NoOutcome, Returned(None)}

\* upload returns normally, no notification read.
UploadReturnsUnread ==
  dfu'.pc = "ended" /\ dfu'.outcome = Returned(None) /\ dfu'.heard = <<>>

\* C23, as stated: once the transfer has succeeded, upload waits for the
\* completion exactly when the image is neither a Key nor a Partition and
\* the caller allowed the reboot, and returns at once otherwise.
C23_WaitsIffRebootAllowed ==
  [][UploadTransferred =>
       IF dfu'.type \notin {Key, Partition} /\ dfu'.reboot
       THEN dfu'.pc = "first" ELSE UploadReturnsUnread]_vars

\* C23: once the transfer has succeeded, upload waits for the completion
\* exactly when the image is neither a Key nor a Partition, the caller
\* allowed the reboot and the modem has an AT interface, and returns
\* normally without reading a notification otherwise.
C23_WaitsIffRebootAllowedAndAt ==
  [][UploadTransferred =>
       IF dfu'.type \notin {Key, Partition} /\ dfu'.reboot /\ dfu'.at
       THEN dfu'.pc = "first" ELSE UploadReturnsUnread]_vars

\* upload of a Modem image, reboot allowed, no AT interface: it has returned
\* normally without waiting.
C23_Witness ==
  /\ dfu.op = "upload" /\ dfu.type = 2 /\ dfu.reboot /\ ~dfu.at
  /\ DfuSucceeded /\ dfu.heard = <<>>

\* ------------------------------------ properties of Dfu.format and the tables

\* Dfu.format has been applied to a payload.
Formatted == arg.kind = "format" /\ ret # None

\* The first four bytes of the payload are the magic in the host's byte order.
StartsWithMagic ==
  /\ Len(arg.data) >= 4
  /\ SubSeq(arg.data, 1, 4) = (IF arg.order = "little" THEN <<71, 19, 206, 236>>
                               ELSE <<236, 206, 19, 71>>)

\* C24: formatting what format returned, for the same image type, returns it
\* unchanged, and a payload whose first four bytes are the magic is returned
\* as it is.
C24_FormatIdempotent ==
  Formatted =>
    /\ DfuFormat(ret[1], arg.type, arg.order) = ret[1]
    /\ StartsWithMagic => ret[1] = arg.data

\* A payload of five bytes that does not begin with the magic has been
\* formatted, and the result begins with it.
C24_Witness ==
  /\ Formatted /\ Len(arg.data) = 5 /\ ~StartsWithMagic
  /\ Len(ret[1]) = 69

\* C25: a payload that does not begin with the magic comes back behind a
\* header of exactly 64 bytes: the magic, the image type and the payload's
\* length as 32-bit words, then zero bytes.
C25_HeaderLayout ==
  (Formatted /\ ~StartsWithMagic) =>
    LET out == ret[1]
    IN  /\ Len(out) = 64 + Len(arg.data)
        /\ Unpack32(SubSeq(out, 1, 4), arg.order) = <<236, 206, 19, 71>>
        /\ Unpack32(SubSeq(out, 5, 8), arg.order) = <<0, 0, 0, arg.type>>
        /\ Unpack32(SubSeq(out, 9, 12), arg.order) = <<0, 0, 0, Len(arg.data)>>
        /\ \A i \in 13..64 : out[i] = 0
        /\ SubSeq(out, 65, Len(out)) = arg.data

\* The empty payload has been formatted for a Partition image: 64 bytes.
C25_Witness ==
  /\ Formatted /\ arg.data = <<>> /\ arg.type = Partition
  /\ Len(ret[1]) = 64

C28_DeadlineFromFirstEntry ==
  reader.reads > 0 => reader.readAt <= reader.timeout

\* A reader with deadline 1 yielded a line after one tick, the caller came
\* back for the next one later than the deadline, and the reader ended
\* without reading again.
C28_Witness ==
  /\ reader.pc = "ended" /\ reader.timeout = 1
  /\ reader.yielded = 1 /\ reader.reads = 1
  /\ reader.total > reader.timeout

\* C29: a line reader with deadline 0 has made exactly one read attempt when
\* it ends.
C29_ZeroDeadlineOneRead ==
  (reader.pc = "ended" /\ reader.timeout = 0) => reader.reads = 1

\* C30: as long as the device has sent no line terminator, a line reader
\* yields nothing: it is still reading, or it has ended in the normal way.
C30_NoTerminatorNoLine ==
  ~reader.arrived =>
    /\ reader.yielded = 0
    /\ reader.pc \in {"idle", "reading", "ended"}

\* A reader with deadline 0 on a port with nothing pending has read and has
\* ended, no line yielded.
C30_Witness ==
  /\ reader.pc = "ended" /\ reader.timeout = 0 /\ sent = 0
  /\ reader.reads > 0 /\ reader.yielded = 0

\* ------------------------------------ properties of two threads on one port

\* sendCommand has ended with the timeout although the device answered.
TimedOutThoughAnswered ==
  conc.cmd.outcome = CommError("timeout") /\ conc.answered

\* What is left to read: the port's input and the buffers in use.
Unread == rx \o conc.heap[1] \o conc.heap[2] \o conc.heap[3]

\* C27: sendCommand returns a response only if the status line was yielded
\* to its own thread; when the line reader of the other thread got it
\* instead, the command ends with CommError.
C27_NoStatusLineNoResponse ==
  (conc.cmd.pc = "ended" /\ ~conc.cmd.status) =>
    conc.cmd.outcome \in {CommError("timeout"), CommError("write")}

\* The device answered OK, the status line was yielded to the thread in
\* getUrc and not to the thread in sendCommand, nothing is left unread, and
\* sendCommand has ended with the timeout.
C27_Witness ==
  /\ TimedOutThoughAnswered
  /\ conc.urc.status /\ ~conc.cmd.status
  /\ ~HasLine(Unread)

\* ------------------------------- properties of the completion handshake

\* A step in which a DFU notification is read in the first loop of
\* _waitForDfuFinish.
ReadInFirstLoop(line) ==
  /\ dfu.pc = "first"
  /\ dfu'.heard = Append(dfu.heard, [line |-> line, phase |-> "first"])

\* The call ends in this step, returning normally, no boot marker awaited.
ReturnsAtOnce ==
  /\ dfu'.pc = "ended" /\ dfu'.outcome = Returned(None)
  /\ \A i \in 1..Len(dfu'.heard) : dfu'.heard[i].phase = "first"

\* C31: in the first loop of _waitForDfuFinish a Done notification ends the
\* call normally at once, no boot marker awaited; so does an Applying
\* notification when the reboot was suppressed; with the reboot allowed,
\* Applying moves the call on to the wait for the boot marker.
C31_FirstPhase ==
  [][/\ ReadInFirstLoop(<<"D", "F", "U", ":", " ", "1">>) => ReturnsAtOnce
     /\ ReadInFirstLoop(<<"D", "F", "U", ":", " ", "3">>) =>
          IF dfu.reboot THEN dfu'.pc = "boot" /\ dfu'.outcome = NoOutcome
          ELSE ReturnsAtOnce]_vars

\* fota with the reboot suppressed: Applying was the one line read, and
\* the call has returned normally.
C31_Witness ==
  /\ dfu.op = "fota" /\ ~dfu.reboot
  /\ dfu.heard = << [line |-> <<"D", "F", "U", ":", " ", "3">>, phase |-> "first"] >>
  /\ dfu.pc = "ended" /\ dfu.outcome = Returned(None)

\* C32: while a phase of _waitForDfuFinish lasts, no more time than the
\* window of that phase has passed since it began: 30 s for the first loop,
\* 120 s for the boot marker, 2 s for the notifications after the boot.
C32_PhaseEndsInWindow ==
  dfu.pc \in {"first", "boot", "final"} => dfu.waited <= Window(dfu.pc)

\* upload has raised.
UploadRaised ==
  dfu.pc = "ended" /\ dfu.outcome.kind \in {"AtError", "OSError"}

\* C33: upload begins the transfer of the payload only once the trigger
\* has been taken - by the AT interface when the modem object has one, by
\* the debug probe otherwise - and when the channel refuses or there is
\* none, upload raises with no transfer begun.
C33_TransferAfterTrigger ==
  dfu.op = "upload" =>
    /\ dfu.transfer # "none" => dfu.trigger = (IF dfu.at THEN "at" ELSE "tool")
    /\ dfu.trigger \in {"at refused", "tool refused", "none"} =>
         UploadRaised /\ dfu.transfer = "none"

\* upload on a modem object without AT interface: the debug probe took the
\* trigger and the payload went over.
C33_Witness ==
  /\ dfu.op = "upload" /\ ~dfu.at
  /\ dfu.trigger = "tool" /\ dfu.transfer = "done"

\* The AT interface refused the trigger: upload raised AtError.
C33_WitnessRefused ==
  /\ dfu.op = "upload" /\ dfu.trigger = "at refused"
  /\ dfu.outcome.kind = "AtError" /\ dfu.transfer = "none"

\* ------------------------------------ properties of the notification parser

\* Urcs.Dfu.makeFromString has returned an event.
Decoded == arg.kind = "dfu" /\ ret # None /\ ret[1].ok

\* C34: every event Urcs.Dfu.makeFromString returns has one of the four
\* types Failure, Done, Progress, Applying; a Failure or Progress event has
\* a value, a Done or Applying event has none.
C34_EventShape ==
  Decoded =>
    /\ ret[1].type \in {Failure, DfuDone, Progress, Applying}
    /\ ret[1].type \in {Failure, Progress} => ret[1].value # None
    /\ ret[1].type \in {DfuDone, Applying} => ret[1].value = None

\* The part of C34 the parser keeps: a Failure or Progress event has a value.
C34_FailureAndProgressCarryCode ==
  Decoded /\ ret[1].type \in {Failure, Progress} => ret[1].value # None

\* ------------------------------- properties of the family B factory

\* The commands of Socket._activateContexts.
SgactQuery == <<"A", "T", "#", "S", "G", "A", "C", "T", "?">>

SgactFirst == <<"A", "T", "#", "S", "G", "A", "C", "T", "=", "1", ",", "1">>

SgactThird == <<"A", "T", "#", "S", "G", "A", "C", "T", "=", "3", ",", "1">>

\* The reply r to AT#SGACT? reports a context in state 1.
ReportsActive(r) == Contains(r.output, <<",", "1">>)

\* The command answered by r failed: the modem replied, and not with OK.
Refused(r) == ~r.raised /\ ~ReplyOk(r)

\* C35: every call of the family B factory writes AT#SGACT? first; it
\* writes an activation command only when that query was answered OK with
\* no context reported active, AT#SGACT=1,1 first and AT#SGACT=3,1 only
\* after AT#SGACT=1,1 was refused; when both are refused it raises OSError,
\* returns no session and leaves the pool as it was.
C35_ContextsBeforeSocket ==
  [][lastCall'.op = "factory" /\ arg \in ActivationArgs =>
       /\ wire' \in { <<SgactQuery>>, <<SgactQuery, SgactFirst>>,
                     <<SgactQuery, SgactFirst, SgactThird>> }
       /\ Len(wire') > 1 =>
            ~arg.r1.raised /\ ReplyOk(arg.r1) /\ ~ReportsActive(arg.r1)
       /\ Len(wire') = 3 <=> (Len(wire') > 1 /\ Refused(arg.r2))
       /\ (Len(wire') = 3 /\ Refused(arg.r3)) =>
            /\ lastCall'.kind = "OSError" /\ lastCall'.session = 0
            /\ availableConnIds' = availableConnIds /\ sessions' = sessions]_vars

\* No context active and both activations refused: the factory has raised
\* OSError with the pool whole.
C35_Witness ==
  /\ arg \in ActivationArgs
  /\ arg.r1 = Replied(ResultOk, <<"#", "S", "G", "A", "C", "T", ":", " ", "1", ",", "0", "\r", "\n", "#", "S", "G", "A", "C", "T", ":", " ", "3", ",", "0">>)
  /\ Refused(arg.r2) /\ Refused(arg.r3)
  /\ lastCall.op = "factory" /\ lastCall.kind = "OSError"
  /\ wire = <<SgactQuery, SgactFirst, SgactThird>>
  /\ availableConnIds = PoolIds

\* ---------------------------- properties of sendCommand after an exchange

\* A step in which _waitForResponse builds the Response it returns.
ResponseBuilt == pc = "wait" /\ outcome'.kind = "response"

\* C36: the status line a Response is built from was sent by the device
\* after the command was written: when _waitForResponse builds the Response,
\* the line it has just read is none of the lines that were on the transport
\* when sendCommand was called.
C36_ResultFromOwnStatusLine ==
  [][ResponseBuilt => CountLines(data) >= pre]_vars

\* -------------------------------------- properties of family A's sessions

\* C37: family A: every socket the modem holds is held by an instance: no
\* instance has overwritten or dropped the id of a socket that AT+KTCPCFG
\* made and AT+KTCPDEL has not deleted.
C37_NoSessionIdLost ==
  family = "A" =>
    \A i \in device : \E s \in DOMAIN sessions : sessions[s].id = Some(i)

\* ----------------------------------- properties of lines getUrc drops

\* C38: a line getUrc has read and not returned, its pattern not matching,
\* is gone: no getUrc or getUrcs call returns it or a text that holds it,
\* whatever its pattern, and it is in the output of no Response.  The lines
\* looked at are those the device numbers, which are all different.
C38_DroppedLinesGone ==
  \A i \in DOMAIN dropped :
    LineNumber(dropped[i]) > 0 =>
      /\ \A j \in DOMAIN delivered : ~Contains(delivered[j].line, dropped[i])
      /\ outcome.kind = "response" => ~Contains(outcome.value.output, dropped[i])

\* getUrc dropped +CREG: 1, and a later call whose pattern would match it
\* has returned +CREG: 2.
C38_Witness ==
  /\ dropped = << <<"+", "C", "R", "E", "G", ":", " ", "1">> >>
  /\ call.pattern = Some(<<"+", "C", "R", "E", "G">>)
  /\ outcome.kind = "urc" /\ outcome.value = <<"+", "C", "R", "E", "G", ":", " ", "2">>

\* getUrc dropped a line, and a command made after it has its Response.
C38_WitnessCommand ==
  /\ dropped # <<>> /\ LineNumber(dropped[1]) > 0
  /\ call.op = "sendCommand" /\ outcome.kind = "response"

\* ------------------------------ properties of one line reader after another

\* The lines of a sequence, one after the other.
RECURSIVE Concat(_)
Concat(lines) == IF lines = <<>> THEN <<>> ELSE Head(lines) \o Concat(Tail(lines))

\* C39: the lines the line readers have yielded, one after the other,
\* followed by what Interface._buffer holds, are the bytes read from the
\* port, in order: what a reader had read of an unfinished line when its
\* deadline ended stays in the buffer and begins the first line the next
\* reader yields.
C39_NothingReadIsLost ==
  Concat(reader.lines) \o buffer = reader.read

\* The first reader ended at its deadline with +CR buffered; the second
\* read the rest and yielded the whole line.
C39_Witness ==
  /\ reader.made = 2 /\ reader.kept = <<"+", "C", "R">>
  /\ reader.pc = "yielded" /\ reader.yielded = 1
  /\ reader.lines = << <<"+", "C", "R", "E", "G", ":", " ", "1">> \o NewLine >>
  /\ buffer = <<>>

\* ------------------------------------------------ the SIMs of a Skywire Nano

\* nano.Sim.__init__: the SIM instances, in the order of the list.
SimTable ==
  << [id |-> 0, name |-> "soldered", fixed |-> TRUE],
     [id |-> 1, name |-> "caged", fixed |-> FALSE] >>

\* The keys a caller indexes the sub-module with: an int, a str, or
\* something that is neither.
IntKey(n) == [type |-> "int", value |-> n, name |-> ""]

StrKey(s) == [type |-> "str", value |-> 0, name |-> s]

OtherKey == [type |-> "float", value |-> 0, name |-> ""]

SimKeys ==
  {IntKey(0), IntKey(1), IntKey(2),
   StrKey("soldered"), StrKey("caged"), StrKey("spare"), OtherKey}

\* Sim.__getitem__: the position of the one SIM with that name or id, or
\* the exception raised.
GetItem(key) ==
  LET sims == IF key.type = "str"
              THEN {i \in 1..Len(SimTable) : SimTable[i].name = key.name}
              ELSE {i \in 1..Len(SimTable) : SimTable[i].id = key.value}
  IN  IF key.type \notin {"str", "int"} THEN Ended("TypeError", None)
      ELSE IF Cardinality(sims) < 1 THEN Ended("KeyError", None)
      ELSE IF Cardinality(sims) > 1 THEN Ended("KeyError", None)
      ELSE Returned(Some(CHOOSE i \in sims : TRUE))

\* nano.Sim._setActive, given the reply to AT#SIMSELECT.
SetActive(r) ==
  IF r.raised THEN Ended("CommError", None)
  ELSE IF ~ReplyOk(r) THEN Ended("AtError", None)
  ELSE Returned(None)

\* A reading of _invalidate that forgets the ICCID of a fixed SIM too.
InvalidateAlways(fixed, iccid) == None

\* Instance._invalidate: the ICCID the instance has cached afterwards.
Invalidate(fixed, iccid) == IF ~fixed THEN None ELSE iccid

\* The setter of Sim.current: the lookup, the select command, and only then
\* the invalidation of the SIM that was current and the new current SIM.
SimSetCurrent ==
  /\ \E key \in SimKeys, r \in PlainReplies :
       LET found == GetItem(key)
           asked == [sim EXCEPT !.op = "set", !.key = key, !.asked = 0]
       IN  IF found.kind # "returned"
           THEN sim' = [asked EXCEPT !.reply = None, !.end = found, !.wire = <<>>]
           ELSE LET to == found.value[1]
                    wrote == [asked EXCEPT
                               !.reply = Some(r),
                               !.wire = <<<<"A", "T", "#", "S", "I", "M", "S", "E", "L", "E", "C", "T", "=">> \o NatText(SimTable[to].id)>>]
                    selected == SetActive(r)
                IN  IF selected.kind # "returned"
                    THEN sim' = [wrote EXCEPT !.end = selected]
                    ELSE sim' = [wrote EXCEPT
                                   !.iccid[sim.current] =
                                      Invalidate(SimTable[sim.current].fixed, @),
                                   !.current = to,
                                   !.end = Returned(None)]
  /\ UNCHANGED <<parseVars, ifaceVars, sockVars, dfu, reader, conc>>

\* Replies to AT#ICCID?.
IccidReplies ==
  PlainReplies \cup {Replied(ResultOk, <<"8", "9", "0", "1">>), Replied(ResultOk, <<"8", "9", "0", "2">>)}

\* Instance.iccid of the SIM at a position: the cached ICCID, or, for the
\* current SIM, the first line of the reply to AT#ICCID?, which is cached.
SimIccid ==
  /\ \E at \in 1..Len(SimTable), r \in IccidReplies :
       LET asked == [sim EXCEPT !.op = "iccid", !.asked = at,
                                !.key = NoSim.key, !.reply = None, !.wire = <<>>]
           wrote == [asked EXCEPT !.reply = Some(r), !.wire = <<<<"A", "T", "#", "I", "C", "C", "I", "D", "?">>>>]
           lines == ResponseLines(r.output)
       IN  IF sim.iccid[at] # None
           THEN sim' = [asked EXCEPT !.end = Returned(sim.iccid[at])]
           ELSE IF at # sim.current
           THEN sim' = [asked EXCEPT !.end = Ended("ValueError", None)]
           ELSE IF r.raised
           THEN sim' = [wrote EXCEPT !.end = Ended("CommError", None)]
           ELSE IF ~ReplyOk(r) \/ Len(lines) < 1
           THEN sim' = [wrote EXCEPT !.end = Ended("AtError", None)]
           ELSE sim' = [wrote EXCEPT !.iccid[at] = Some(lines[1]),
                                    !.end = Returned(Some(lines[1]))]
  /\ UNCHANGED <<parseVars, ifaceVars, sockVars, dfu, reader, conc>>

InitSim ==
  /\ arg = None /\ ret = None
  /\ echo = FALSE
  /\ IdleInterface
  /\ NoSockets
  /\ NoCallers

NextSim == SimSetCurrent \/ SimIccid

SpecSim == InitSim /\ [][NextSim]_vars

\* The SIMs a key names.
Named(key) ==
  {i \in 1..Len(SimTable) :
     \/ key.type = "int" /\ SimTable[i].id = key.value
     \/ key.type = "str" /\ SimTable[i].name = key.name}

\* An assignment to sim.current has just ended.
Assigned == sim'.op = "set"

\* The select command of the assignment was sent and answered with OK.
Selected == sim'.reply # None /\ ~sim'.reply[1].raised /\ ReplyOk(sim'.reply[1])

\* C40: assigning sim.current, when the key names no SIM or the select
\* command fails, leaves the current SIM and every cached ICCID as they
\* were; when the select command succeeds, the SIM the key names is the
\* current one, the ICCID cached for the SIM that was current is forgotten
\* unless that SIM is fixed, and the other cached ICCID is as it was.
C40_CurrentAssigned ==
  [][Assigned =>
       IF Named(sim'.key) # {} /\ Selected
       THEN /\ sim'.current \in Named(sim'.key)
            /\ \A i \in 1..Len(SimTable) :
                 sim'.iccid[i] = IF i = sim.current /\ ~SimTable[i].fixed
                                 THEN None ELSE sim.iccid[i]
       ELSE /\ sim'.current = sim.current
            /\ sim'.iccid = sim.iccid]_vars

\* The caged SIM has been selected while the ICCID of the soldered SIM was
\* cached, and that ICCID is still cached.
C40_Witness ==
  /\ sim.op = "set" /\ sim.end.kind = "returned"
  /\ sim.current = 2
  /\ sim.iccid[1] = Some(<<"8", "9", "0", "1">>)

\* The soldered SIM has been selected and the ICCID of the caged SIM, which
\* had been read, is forgotten.
C40_WitnessCleared ==
  /\ sim.op = "set" /\ sim.end.kind = "returned"
  /\ sim.current = 1 /\ sim.key = StrKey("soldered")
  /\ sim.iccid[1] = Some(<<"8", "9", "0", "1">>) /\ sim.iccid[2] = None
====
